---------------------------- MODULE Spec2Model ----------------------------
(***************************************************************************)
(* A model of the connection engine of go.lsp.dev/jsonrpc2 (conn.go).      *)
(*                                                                         *)
(* One Connection is modelled together with its environment: the remote    *)
(* peer (which sends requests and responses over the stream and reads the  *)
(* frames the connection writes), the user's Preempter and Handler, and    *)
(* the goroutines of the user that call the public API (Request, Notify,   *)
(* Await, Response, Cancel).                                               *)
(*                                                                         *)
(* Goroutines are the members of Threads:                                  *)
(*   "R"  readIncoming      "M"  manageQueue      "D"  deliverMessages     *)
(*   "U"  a user goroutine calling Connection.Response                     *)
(*   "Q"  a user goroutine calling Connection.Request / Notify             *)
(*   "C"  a user goroutine calling Connection.Close                        *)
(*   "W"  a user goroutine blocked in Connection.Wait                      *)
(* The peer allocates the identifiers of its calls as this library does    *)
(* (Connection.Request, an incrementing counter), so the k-th inbound call *)
(* carries identifier k.  Results handed to the engine are values that     *)
(* marshal to JSON.                                                        *)
(***************************************************************************)
EXTENDS Naturals, Integers, Sequences, FiniteSets, TLC

(* ------------------------------ bounds -------------------------------- *)

\* Number of messages the reader reads before the model stops the peer.
MaxRead == 2

\* Number of outbound calls made through Connection.Request.
MaxSeq == 1

\* Number of Connection.Response invocations per inbound call identifier.
MaxRespond == 2

\* Number of notifications sent through Connection.Notify.
MaxNotify == 1

\* Number of goroutines calling Connection.Request concurrently, and the
\* number of calls they make together.
MaxCallers == 3

MaxIDs == 4

\* Number of Connection.Close invocations.
MaxClose == 2

\* Number of connections dialed to a listener, and of Close calls on it.
MaxConns == 2
MaxListenerClose == 2

\* Number of Dial calls and of Accept calls on a netPiper.
MaxDials == 2
MaxAccepts == 2

\* Number of messages written to a framed stream.
MaxFrames == 2

\* Number of calls each Connection of a pair sends to the other.
MaxPairCalls == 2

\* Number of times each goroutine calls Await on the handle.
MaxAwaits == 2

\* Number of requests passed to an AsyncHandler.
MaxAsync == 4

\* Number of requests Conn.Run reads, and of Reply calls a handler makes
\* for one request.
MaxRun == 3
MaxReplies == 2

\* requestState (jsonrpc2.go 118-124).
requestWaiting == 0
requestSerial == 1
requestParallel == 2
requestReplied == 3

(* --------------------------- value domains ---------------------------- *)

\* A nil result (interface{}(nil)) / an absent identifier / an absent entry.
Nil == -1

NoEntry == 0

Threads == {"R", "M", "D", "U", "Q", "C", "W"}

\* The "queue" sequence of the tests makes three calls (wait, peek, get).
TestCalls == 3

\* Identifiers an inbound call can carry (the peer's counter).
CallIDs == 1..(IF MaxRead > TestCalls THEN MaxRead ELSE TestCalls)

\* Identifiers of outbound calls (Connection.seq).
OutIDs == 1..MaxSeq

\* The (result, error) pair a Preempter or Handler returns.
Outcome(err, result) == [err |-> err, result |-> result]

NoOutcome == Outcome("nil", Nil)

\* The params of a request: a number, a string, or neither.
Param(n, str) == [n |-> n, s |-> str]

NoParam == Param(Nil, "")

\* What an arbitrary user handler may return: ErrNotHandled,
\* ErrAsyncResponse, a result, an error, or (nil, nil).
AnyOutcomes ==
    { Outcome("ErrNotHandled", Nil), Outcome("ErrAsyncResponse", Nil),
      Outcome("nil", 1), Outcome("error", Nil), Outcome("nil", Nil) }

\* What a user may pass to Connection.Response(id, result, rerr).
RespondOutcomes == { Outcome("nil", 1), Outcome("error", Nil) }

\* The goroutines that call Connection.Request concurrently.
Callers == 1..MaxCallers

\* The connections dialed to the listener.
Conns == 1..MaxConns

\* The Dial calls on a netPiper (each names the pipe it makes) and the
\* goroutines calling Accept on it.
Dials == 1..MaxDials
Acceptors == 1..MaxAccepts

\* The listeners of net.go: NetListener, NetPipe, IOPipe.
Kinds == {"net", "pipe", "io"}

\* The names the test client files its calls under (h.calls).
TestNames == {"a", "b", "peek", "get"}

VARIABLES
    stream,        \* "open" | "closed": the underlying io.ReadWriteCloser
    nread,         \* number of messages the reader has read
    peerSeq,       \* the peer's call counter: identifier of its last call
    entries,       \* the *incoming entries created so far, in read order
    incomings,     \* Connection.incomings map: call id -> entry (NoEntry: absent)
    incomingsTok,  \* holder of the incomings map ("free": in its channel)
    writersTok,    \* holder of the Writer ("free": in its channel)
    pc,            \* position of each goroutine
    cur,           \* the entry each goroutine works on
    res,           \* the (result, error) each goroutine is replying with
    q,             \* manageQueue's local queue
    mok,           \* manageQueue's "ok": fromRead not yet seen closed
    written,       \* frames handed to Writer.Write, in order
    handled,       \* entries passed to Handler.Handle, in order of invocation
    seq,           \* Connection.seq
    outgoings,     \* Connection.outgoings map: the ids pending
    respChan,      \* AsyncRequest.response of each outbound call (one slot)
    resultBox,     \* AsyncRequest.result of each outbound call (one slot)
    delivered,     \* number of Responses handed to each call's channel
    qframe,        \* the frame goroutine "Q" is writing
    respCalls,     \* Connection.Response invocations per deferred call id
    nnotify,       \* number of Connection.Notify invocations
    connErr,       \* async.errs: the stored connection error
    accumulator,   \* test handler: handler.accumulator
    waiters,       \* test handler: names whose waiter channel is closed
    forks,         \* test handler: goroutines started by "fork"
    script,        \* test client: the steps still to run
    calls,         \* test client: h.calls, name -> id of the async Request
    awaitErr,      \* outbound calls whose Await returned its context's error
    handles,       \* per calling goroutine: the ids of the handles Request returned
    closes,        \* what each Connection.Close invocation returned, in order
    listen,        \* idleListener.listen: the kind of Listener wrapped ("none": not yet made)
    lis,           \* the wrapped listener and the idleListener with its run goroutine
    srv,           \* the Server: its run goroutine, its error, its Wait
    cstate,        \* the connections dialed to the listener
    lcloses,       \* number of Close calls on the idleListener
    panicked,      \* the goroutine that panicked ("none": no panic)
    piper,         \* a netPiper: its done channel, the Dial and Accept calls on it
    wire,          \* a Framer's Writer and Reader joined by a byte stream
    pair,          \* two Connections joined back to back by a synchronous pipe
    handle,        \* one AsyncRequest and the goroutines that Await on it
    async,         \* the requests passed to an AsyncHandler
    run            \* Conn.Run: the inbound requests and the replies written

vars == << stream, nread, peerSeq, entries, incomings, incomingsTok, writersTok,
           pc, cur, res, q, mok, written, handled, seq, outgoings,
           respChan, resultBox, delivered, qframe, respCalls, nnotify, connErr,
           accumulator, waiters, forks, script, calls, awaitErr,
           handles, closes, listen, lis, srv, cstate, lcloses, panicked,
           piper, wire, pair, handle, async, run >>

pipeVars == << nread, peerSeq, entries, q, mok, handled >>
outVars  == << seq, outgoings, respChan, resultBox, delivered, qframe, nnotify >>
testVars == << accumulator, waiters, forks, script, calls >>

\* What lies outside the engine and the test handler: the callers' view of
\* their calls.
srvVars  == << listen, lis, srv, cstate, lcloses, panicked >>
auxVars  == << piper, wire, pair, handle, async, run >>
extVars  == << awaitErr, handles, closes, srvVars, auxVars >>

(* ------------------------------ helpers ------------------------------- *)

\* Request.IsCall: the request carries an identifier.
IsCallAlways(e) == TRUE

IsCall(e) == entries[e].id # Nil

\* A frame handed to the Writer.
Frame(kind, id, err, result, e) ==
    [kind |-> kind, id |-> id, err |-> err, result |-> result, entry |-> e]

NoFrame == Frame("none", Nil, "nil", Nil, NoEntry)

\* The entry of the inbound call that carried identifier id, if it was read.
EntryOf(id) ==
    IF \E e \in 1..Len(entries) : entries[e].id = id
    THEN CHOOSE e \in 1..Len(entries) : entries[e].id = id
    ELSE NoEntry

\* A handler returned ErrAsyncResponse for the call with identifier id.
Deferred(id) == EntryOf(id) # NoEntry /\ entries[EntryOf(id)].deferred

\* The Response frames written so far that answer entry e.
ResponsesTo(e) ==
    { i \in 1..Len(written) : written[i].kind = "response" /\ written[i].entry = e }

(* ------------------------------- Init --------------------------------- *)

\* NetPipe, net.go 128-133: both channels open and empty, no call yet.
InitPiper ==
    piper = [done |-> FALSE, closes |-> 0, made |-> 0, dialing |-> {},
             dialed |-> {}, acc |-> [a \in Acceptors |-> [st |-> "idle", p |-> 0]]]

\* No Framer chosen yet, nothing written or read.
InitWire ==
    wire = [framing |-> "none", wrote |-> << >>, env |-> << >>,
            bytes |-> << >>, got |-> << >>]

\* Both Connections of a pair as newConnection leaves them: the reader in
\* Read, the deliverer waiting for the queue, map and Writer in their
\* channels, nothing on the pipe.
InitPair ==
    pair = [s \in {1, 2} |->
              [rd |-> "read", dl |-> "recv", cl |-> "idle", tab |-> "free",
               wtok |-> "free", out |-> "none", q |-> 0, calls |-> 0]]

\* The AsyncRequest as Request returns it after a successful write: both
\* channels empty, nobody awaiting.
InitHandle ==
    handle = [response |-> << >>, result |-> << >>, answered |-> FALSE,
              returned |-> << >>,
              aw |-> [a \in {1, 2} |-> [pc |-> "idle", r |-> "none", done |-> FALSE, n |-> 0]]]

\* AsyncHandler(handler): nextRequest is a closed channel and no request
\* has been passed to the returned handler.
InitAsync ==
    async = [arrived |-> 0, outer |-> "idle", starts |-> << >>,
             st |-> [k \in 1..MaxAsync |-> "none"],
             unlocked |-> [k \in 1..MaxAsync |-> FALSE]]

\* Conn.Run before its first Read: nextReq is a closed channel, nothing
\* is being handled and nothing has been written.
InitRun ==
    run = [arrived |-> 0,
           req |-> [k \in 1..MaxRun |->
                      [kind |-> "none", pc |-> "none", state |-> requestWaiting,
                       unlocked |-> FALSE, replies |-> 0, last |-> "none",
                       writes |-> << >>]]]

InitAux == InitPiper /\ InitWire /\ InitPair /\ InitHandle /\ InitAsync /\ InitRun

\* newConnection: empty maps in their channels, the three goroutines
\* started, the Writer released.
InitConn ==
    /\ stream = "open"
    /\ nread = 0
    /\ peerSeq = 0
    /\ entries = << >>
    /\ incomings = [i \in CallIDs |-> NoEntry]
    /\ incomingsTok = "free"
    /\ writersTok = "free"
    /\ pc = [t \in Threads |->
               CASE t = "R" -> "read"
                 [] t = "M" -> "loop"
                 [] t = "D" -> "recv"
                 [] OTHER   -> "idle"]
    /\ cur = [t \in Threads |-> NoEntry]
    /\ res = [t \in Threads |-> NoOutcome]
    /\ q = << >>
    /\ mok = TRUE
    /\ written = << >>
    /\ handled = << >>
    /\ seq = 0
    /\ outgoings = {}
    /\ respChan = [i \in OutIDs |-> << >>]
    /\ resultBox = [i \in OutIDs |-> << >>]
    /\ delivered = [i \in OutIDs |-> 0]
    /\ qframe = NoFrame
    /\ respCalls = [i \in CallIDs |-> 0]
    /\ nnotify = 0
    /\ connErr = "nil"
    /\ accumulator = 0
    /\ waiters = {}
    /\ forks = {}
    /\ calls = [n \in TestNames |-> Nil]

\* No Await has returned yet.
InitExt ==
    /\ awaitErr = {}
    /\ handles = [c \in Callers |-> << >>]
    /\ closes = << >>
    /\ listen = "none"
    /\ lis = [open |-> FALSE, closed |-> FALSE, wasTimeout |-> FALSE,
              run |-> "none", conns |-> << >>, fired |-> 0]
    /\ srv = [pc |-> "none", cur |-> 0, active |-> {}, err |-> "nil",
              log |-> << >>, accepted |-> "none", waited |-> "blocked"]
    /\ cstate = [i \in Conns |-> "none"]
    /\ lcloses = 0
    /\ panicked = "none"
    /\ InitAux

Init ==
    /\ InitConn
    /\ InitExt
    /\ script = << >>

(* ------------------------- readIncoming ("R") ------------------------- *)

\* A new *incoming for a request that was just decoded: conn.go 224-231.
\* pre records how the switch on Preempt's return classified it: "none" (not
\* yet, or never, preempted), "ErrNotHandled", "ErrAsyncResponse" or
\* "final" (anything else).
NewEntry(id, method, param) ==
    [id |-> id, method |-> method, param |-> param.n, name |-> param.s,
     cancelled |-> FALSE, deferred |-> FALSE, pre |-> "none"]

\* reader.Read returned a Request.  A call takes the next identifier of
\* the peer; a notification carries none.
ReadRequest(call, method, param) ==
    /\ pc["R"] = "read"
    /\ stream = "open"
    /\ nread' = nread + 1
    /\ peerSeq' = IF call THEN peerSeq + 1 ELSE peerSeq
    /\ entries' = Append(entries,
                         NewEntry(IF call THEN peerSeq + 1 ELSE Nil, method, param))
    /\ cur' = [cur EXCEPT !["R"] = Len(entries) + 1]
    /\ pc' = [pc EXCEPT !["R"] = IF call THEN "reg" ELSE "send"]
    /\ UNCHANGED << stream, incomings, incomingsTok, writersTok, res, q, mok,
                    written, handled, respCalls, connErr >>
    /\ UNCHANGED outVars

\* pending := <-c.incomings; c.incomings <- pending  (conn.go 236-237)
RegTake ==
    /\ pc["R"] = "reg"
    /\ incomingsTok = "free"
    /\ pc' = [pc EXCEPT !["R"] = "regw"]
    /\ UNCHANGED << stream, incomings, incomingsTok, writersTok, cur, res,
                    written, respCalls, connErr >>
    /\ UNCHANGED << pipeVars, outVars, testVars, extVars >>

\* pending[msg.ID] = entry  (conn.go 238), after the map went back.
RegWrite ==
    /\ pc["R"] = "regw"
    /\ incomings' = [incomings EXCEPT ![entries[cur["R"]].id] = cur["R"]]
    /\ pc' = [pc EXCEPT !["R"] = "send"]
    /\ UNCHANGED << stream, incomingsTok, writersTok, cur, res,
                    written, respCalls, connErr >>
    /\ UNCHANGED << pipeVars, outVars, testVars, extVars >>

\* incomingResponse would block on `response <- msg`: the slot is taken.
SendBlocks(id) == id \in outgoings /\ Len(respChan[id]) >= 1

\* incomingResponse's table update: delete(pending, msg.ID) when found.
OutgoingsAfterNoDelete(id) == outgoings

OutgoingsAfter(id) == outgoings \ {id}

\* Connection.incomingResponse(msg), conn.go 252-263, for every variable
\* but pc: look the id up, delete it, hand msg to the call's channel.
IncomingResponse(id, msg) ==
    IF id \in outgoings
    THEN /\ outgoings' = OutgoingsAfter(id)
         /\ delivered' = [delivered EXCEPT ![id] = @ + 1]
         /\ respChan' = IF SendBlocks(id) THEN respChan
                        ELSE [respChan EXCEPT ![id] = Append(@, msg)]
    ELSE UNCHANGED << outgoings, delivered, respChan >>

\* What the peer may answer a call with.
PeerResponses == { Outcome("nil", 1), Outcome("error", Nil) }

\* reader.Read returned a Response: conn.go 244-247.
ReadResponse(id, msg) ==
    /\ pc["R"] = "read"
    /\ stream = "open"
    /\ nread' = nread + 1
    /\ IncomingResponse(id, msg)
    /\ pc' = [pc EXCEPT !["R"] = IF SendBlocks(id) THEN "blocked" ELSE "read"]
    /\ UNCHANGED << stream, peerSeq, entries, incomings, incomingsTok, writersTok,
                    cur, res, q, mok, written, handled, seq, resultBox, qframe,
                    respCalls, nnotify, connErr >>
    /\ UNCHANGED << testVars, extVars >>

\* async.setError: only the first error is kept (part_019 84-90).
SetError(err) == IF connErr = "nil" THEN err ELSE connErr

\* A reader that stores the error of a failed Read and reads on.
ReadFailContinue(kind) ==
    /\ pc["R"] = "read"
    /\ (kind = "closing") <=> (stream = "closed")
    /\ connErr' = SetError(kind)
    /\ UNCHANGED << stream, incomings, incomingsTok, writersTok, pc, cur, res,
                    written, respCalls >>
    /\ UNCHANGED << pipeVars, outVars, testVars, extVars >>

\* reader.Read failed: the stream is closed ("closing") or the bytes read
\* are no valid frame ("framing").  conn.go 215-220, and the deferred
\* close(toQueue).
ReadFail(kind) ==
    /\ pc["R"] = "read"
    /\ (kind = "closing") <=> (stream = "closed")
    /\ connErr' = SetError(kind)
    /\ pc' = [pc EXCEPT !["R"] = "done"]
    /\ UNCHANGED << stream, incomings, incomingsTok, writersTok, cur, res,
                    written, respCalls >>
    /\ UNCHANGED << pipeVars, outVars, testVars, extVars >>

\* The underlying stream is closed (Connection.Close, or the peer).
CloseStream ==
    /\ stream = "open"
    /\ stream' = "closed"
    /\ UNCHANGED << incomings, incomingsTok, writersTok, pc, cur, res,
                    written, respCalls, connErr >>
    /\ UNCHANGED << pipeVars, outVars, testVars, extVars >>

(* -------------------------- manageQueue ("M") ------------------------- *)

\* A stage that does not look at the handling context.
CtxErrIgnored(e) == "nil"

\* entry.handleCtx.Err(): the handling context was cancelled.
CtxErr(e) == IF entries[e].cancelled THEN "Canceled" ELSE "nil"

\* conn.go 274-293: manageQueue offers the receive from the reader whether
\* or not entries are queued; with an empty queue only while ok.
CanReceiveOnlyEmpty == Len(q) = 0 /\ mok

CanReceive == Len(q) = 0 => mok

\* nextReq, ok = <-fromRead with the reader ready to send (the channel is
\* unbuffered), then conn.go 295-302: an entry already cancelled is not
\* preempted.  The receive is offered with an empty queue only while ok.
MRecv ==
    /\ pc["M"] = "loop"
    /\ CanReceive
    /\ pc["R"] = "send"
    /\ LET e == cur["R"] IN
       /\ cur' = [cur EXCEPT !["R"] = NoEntry, !["M"] = e]
       /\ IF CtxErr(e) # "nil"
          THEN /\ res' = [res EXCEPT !["M"] = Outcome(CtxErr(e), Nil)]
               /\ pc' = [pc EXCEPT !["R"] = "read", !["M"] = "reply"]
          ELSE /\ res' = res
               /\ pc' = [pc EXCEPT !["R"] = "read", !["M"] = "preempt"]
    /\ UNCHANGED << stream, incomings, incomingsTok, writersTok,
                    written, respCalls, connErr >>
    /\ UNCHANGED << pipeVars, outVars, testVars, extVars >>

\* nextReq, ok = <-fromRead on the closed channel: nil, false.
MRecvClosed ==
    /\ pc["M"] = "loop"
    /\ mok
    /\ pc["R"] = "done"
    /\ mok' = FALSE
    /\ UNCHANGED << stream, incomings, incomingsTok, writersTok, pc, cur, res,
                    written, respCalls, connErr >>
    /\ UNCHANGED << nread, peerSeq, entries, q, handled >>
    /\ UNCHANGED << outVars, testVars, extVars >>

\* len(q) == 0 && !ok: return, and the deferred close(toDeliver).
MDone ==
    /\ pc["M"] = "loop"
    /\ Len(q) = 0
    /\ ~mok
    /\ pc' = [pc EXCEPT !["M"] = "done"]
    /\ UNCHANGED << stream, incomings, incomingsTok, writersTok, cur, res,
                    written, respCalls, connErr >>
    /\ UNCHANGED << pipeVars, outVars, testVars, extVars >>

\* errors.Is(rerr, ErrNotHandled) / errors.Is(rerr, ErrAsyncResponse): the
\* cases of the switch in manageQueue and deliverMessages.
IsNotHandledAlways(err) == TRUE

IsNotHandled(err) == err = "ErrNotHandled"

IsAsyncNever(err) == FALSE

IsAsync(err) == err = "ErrAsyncResponse"

\* Where manageQueue puts an entry the Preempter did not handle.
EnqueueFront(e) == << e >> \o q

Enqueue(e) == Append(q, e)

\* The handler's return value asks for a deferred reply.
Defers(o) == o.err = "ErrAsyncResponse"

\* The switch on what Preempt returned, conn.go 304-315.
PreemptReturn(o) ==
    /\ pc["M"] \in {"preempt", "preempting"}
    /\ LET e == cur["M"] IN
       CASE IsNotHandled(o.err) ->
              /\ q' = Enqueue(e)
              /\ entries' = [entries EXCEPT ![e].pre = o.err,
                                            ![e].deferred = Defers(o)]
              /\ pc' = [pc EXCEPT !["M"] = "loop"]
              /\ cur' = [cur EXCEPT !["M"] = NoEntry]
              /\ res' = res
         [] IsAsync(o.err) ->
              /\ q' = q
              /\ entries' = [entries EXCEPT ![e].pre = o.err,
                                            ![e].deferred = Defers(o)]
              /\ pc' = [pc EXCEPT !["M"] = "loop"]
              /\ cur' = [cur EXCEPT !["M"] = NoEntry]
              /\ res' = res
         [] OTHER ->
              /\ q' = q
              /\ entries' = [entries EXCEPT ![e].pre = "final",
                                            ![e].deferred = Defers(o)]
              /\ pc' = [pc EXCEPT !["M"] = "reply"]
              /\ cur' = cur
              /\ res' = [res EXCEPT !["M"] = o]
    /\ UNCHANGED << stream, incomings, incomingsTok, writersTok,
                    written, respCalls, connErr >>
    /\ UNCHANGED << nread, peerSeq, mok, handled >>
    /\ UNCHANGED outVars

(* ------------------------ deliverMessages ("D") ----------------------- *)

\* toDeliver <- q[0] with the deliverer ready to receive, then conn.go
\* 326-330: an entry already cancelled is not handed to the Handler.
MDeliver ==
    /\ pc["M"] = "loop"
    /\ Len(q) > 0
    /\ pc["D"] = "recv"
    /\ LET e == Head(q) IN
       /\ q' = Tail(q)
       /\ cur' = [cur EXCEPT !["D"] = e]
       /\ IF CtxErr(e) # "nil"
          THEN /\ res' = [res EXCEPT !["D"] = Outcome(CtxErr(e), Nil)]
               /\ pc' = [pc EXCEPT !["D"] = "reply"]
               /\ UNCHANGED handled
          ELSE /\ res' = res
               /\ pc' = [pc EXCEPT !["D"] = "handle"]
               /\ handled' = Append(handled, e)
    /\ UNCHANGED << stream, incomings, incomingsTok, writersTok,
                    written, respCalls, connErr >>
    /\ UNCHANGED << nread, peerSeq, entries, mok >>
    /\ UNCHANGED << outVars, testVars, extVars >>

\* What is replied for a request the Handler did not handle, conn.go 335:
\* ErrMethodNotFound wrapping the method name, and no result.
NotHandledReplyAsIs == Outcome("ErrNotHandled", Nil)

NotHandledReply == Outcome("ErrMethodNotFound", Nil)

\* The switch on what Handle returned, conn.go 332-342.
HandleReturn(o) ==
    /\ pc["D"] = "handle"
    /\ LET e == cur["D"] IN
       CASE IsNotHandled(o.err) ->
              /\ entries' = [entries EXCEPT ![e].deferred = Defers(o)]
              /\ pc' = [pc EXCEPT !["D"] = "reply"]
              /\ cur' = cur
              /\ res' = [res EXCEPT !["D"] = NotHandledReply]
         [] IsAsync(o.err) ->
              /\ entries' = [entries EXCEPT ![e].deferred = Defers(o)]
              /\ pc' = [pc EXCEPT !["D"] = "recv"]
              /\ cur' = [cur EXCEPT !["D"] = NoEntry]
              /\ res' = res
         [] OTHER ->
              /\ entries' = [entries EXCEPT ![e].deferred = Defers(o)]
              /\ pc' = [pc EXCEPT !["D"] = "reply"]
              /\ cur' = cur
              /\ res' = [res EXCEPT !["D"] = o]
    /\ UNCHANGED << stream, incomings, incomingsTok, writersTok,
                    written, respCalls, connErr >>
    /\ UNCHANGED << nread, peerSeq, q, mok, handled >>
    /\ UNCHANGED outVars

\* `for entry := range fromQueue` ends on the closed channel; the deferred
\* c.async.done().
DDone ==
    /\ pc["D"] = "recv"
    /\ pc["M"] = "done"
    /\ pc' = [pc EXCEPT !["D"] = "done"]
    /\ UNCHANGED << stream, incomings, incomingsTok, writersTok, cur, res,
                    written, respCalls, connErr >>
    /\ UNCHANGED << pipeVars, outVars, testVars, extVars >>

(* ------------------- reply, response, write (shared) ------------------ *)

\* Where a goroutine goes on after a reply or an API call.
Home(t) == CASE t = "M" -> "loop" [] t = "D" -> "recv" [] OTHER -> "idle"

\* delete(pending, id) on the incomings map.
IncomingsKept(id) == incomings

IncomingsWithout(id) == [incomings EXCEPT ![id] = NoEntry]

\* A Response built from the handler's return values as they are.
ResponseFrameAsIs(e, o) == Frame("response", entries[e].id, o.err, o.result, e)

\* The Response built by Connection.response for a call, conn.go 366-374:
\* (nil, nil) becomes ErrInternal.
ResponseFrame(e, o) ==
    Frame("response", entries[e].id,
          IF o.result = Nil /\ o.err = "nil" THEN "ErrInternal" ELSE o.err,
          o.result, e)

\* Connection.reply up to the write, conn.go 347-354.  For a call the map
\* is taken (and kept until reply returns) and the id deleted; for a
\* notification Connection.response writes nothing and only invokes the
\* entry's cancel (conn.go 379-399).
ReplyBegin(t) ==
    /\ t \in {"M", "D"}
    /\ pc[t] = "reply"
    /\ LET e == cur[t] IN
       IF IsCall(e)
       THEN /\ incomingsTok = "free"
            /\ incomingsTok' = t
            /\ incomings' = IncomingsWithout(entries[e].id)
            /\ pc' = [pc EXCEPT ![t] = "wtok"]
            /\ UNCHANGED << entries, cur, res >>
       ELSE /\ entries' = [entries EXCEPT ![e].cancelled = TRUE]
            /\ pc' = [pc EXCEPT ![t] = Home(t)]
            /\ cur' = [cur EXCEPT ![t] = NoEntry]
            /\ res' = [res EXCEPT ![t] = NoOutcome]
            /\ UNCHANGED << incomings, incomingsTok >>
    /\ UNCHANGED << stream, writersTok, written, respCalls, connErr >>
    /\ UNCHANGED << nread, peerSeq, q, mok, handled >>
    /\ UNCHANGED << outVars, testVars, extVars >>

\* writer := <-c.writers can proceed: the Writer is in its channel.
WriterAlways == TRUE

WriterAvailable == writersTok = "free"

\* Connection.write, conn.go 411: take the Writer.
WriteAcquire(t) ==
    /\ pc[t] = "wtok"
    /\ WriterAvailable
    /\ writersTok' = t
    /\ pc' = [pc EXCEPT ![t] = "writing"]
    /\ UNCHANGED << stream, incomings, incomingsTok, cur, res,
                    written, respCalls, connErr >>
    /\ UNCHANGED << pipeVars, outVars, testVars, extVars >>

\* writer.Write returns, the deferred c.writers <- writer, then the rest of
\* Connection.response (the entry's cancel is invoked and cleared) and the
\* deferred c.incomings <- pending of reply / Response.
WriteDoneReply(t) ==
    /\ t \in {"M", "D", "U"}
    /\ pc[t] = "writing"
    /\ LET e == cur[t] IN
       /\ written' = Append(written, ResponseFrame(e, res[t]))
       /\ entries' = [entries EXCEPT ![e].cancelled = TRUE]
    /\ writersTok' = "free"
    /\ incomingsTok' = "free"
    /\ pc' = [pc EXCEPT ![t] = Home(t)]
    /\ cur' = [cur EXCEPT ![t] = NoEntry]
    /\ res' = [res EXCEPT ![t] = NoOutcome]
    /\ UNCHANGED << stream, incomings, respCalls, connErr >>
    /\ UNCHANGED << nread, peerSeq, q, mok, handled >>
    /\ UNCHANGED << outVars, testVars, extVars >>

(* --------------------- Connection.Response, Cancel -------------------- *)

\* Connection.Response(id, result, rerr), conn.go 483-494, called by
\* goroutine "U": take the map; an id that is not there returns nil; else
\* delete it and go on to Connection.response with the map still held.
ResponseCall(id, o) ==
    /\ pc["U"] = "idle"
    /\ incomingsTok = "free"
    /\ Deferred(id) => respCalls[id] < MaxRespond
    /\ respCalls' = IF Deferred(id) THEN [respCalls EXCEPT ![id] = @ + 1]
                    ELSE respCalls
    /\ IF incomings[id] = NoEntry
       THEN UNCHANGED << incomings, incomingsTok, pc, cur, res >>
       ELSE /\ incomings' = IncomingsWithout(id)
            /\ incomingsTok' = "U"
            /\ pc' = [pc EXCEPT !["U"] = "wtok"]
            /\ cur' = [cur EXCEPT !["U"] = incomings[id]]
            /\ res' = [res EXCEPT !["U"] = o]
    /\ UNCHANGED << stream, writersTok, written, connErr >>
    /\ UNCHANGED << pipeVars, outVars >>

\* The entry Cancel(id) cancels: the one found in the map.
CancelTarget(id) == incomings[id]

\* Connection.Cancel(id), conn.go 505-513, on the entries.  entry.cancel
\* is nil exactly when the handling context has been cancelled.
CancelNone(id) == entries

CancelEntries(id) ==
    LET e == CancelTarget(id) IN
    IF e # NoEntry /\ ~entries[e].cancelled
    THEN [entries EXCEPT ![e].cancelled = TRUE]
    ELSE entries

\* Cancel called by any goroutine that is not inside the engine.
Cancel(id) ==
    /\ incomingsTok = "free"
    /\ entries' = CancelEntries(id)
    /\ UNCHANGED << stream, incomings, incomingsTok, writersTok, pc, cur, res,
                    written, respCalls, connErr >>
    /\ UNCHANGED << nread, peerSeq, q, mok, handled >>
    /\ UNCHANGED outVars

(* ---------------- Request, Notify, Await (goroutine "Q") -------------- *)

\* A Request that writes the call without entering it in the outgoings map.
RequestUnregistered ==
    /\ pc["Q"] = "idle"
    /\ seq < MaxSeq
    /\ seq' = seq + 1
    /\ qframe' = Frame("call", seq + 1, "nil", Nil, NoEntry)
    /\ pc' = [pc EXCEPT !["Q"] = "wtok"]
    /\ UNCHANGED << stream, incomings, incomingsTok, writersTok, cur, res,
                    written, respCalls, connErr >>
    /\ UNCHANGED << outgoings, respChan, resultBox, delivered, nnotify >>
    /\ UNCHANGED << pipeVars, testVars, extVars >>

\* Connection.Request up to the write, conn.go 445-466: the next id, the
\* one-slot response channel registered in the outgoings map.
Request ==
    /\ pc["Q"] = "idle"
    /\ seq < MaxSeq
    /\ seq' = seq + 1
    /\ outgoings' = outgoings \cup {seq + 1}
    /\ qframe' = Frame("call", seq + 1, "nil", Nil, NoEntry)
    /\ pc' = [pc EXCEPT !["Q"] = "wtok"]
    /\ UNCHANGED << stream, incomings, incomingsTok, writersTok, cur, res,
                    written, respCalls, connErr >>
    /\ UNCHANGED << respChan, resultBox, delivered, nnotify >>
    /\ UNCHANGED << pipeVars, testVars, extVars >>

\* Connection.Notify up to the write, conn.go 425-431.
Notify ==
    /\ pc["Q"] = "idle"
    /\ nnotify < MaxNotify
    /\ nnotify' = nnotify + 1
    /\ qframe' = Frame("notify", Nil, "nil", Nil, NoEntry)
    /\ pc' = [pc EXCEPT !["Q"] = "wtok"]
    /\ UNCHANGED << stream, incomings, incomingsTok, writersTok, cur, res,
                    written, respCalls, connErr >>
    /\ UNCHANGED << seq, outgoings, respChan, resultBox, delivered >>
    /\ UNCHANGED << pipeVars, testVars, extVars >>

\* writer.Write returns to Request or Notify and the Writer goes back.  A
\* write on a closed stream fails; a failed call is answered by a fake
\* Response through incomingResponse (conn.go 469-473).
WriteDoneQ ==
    /\ pc["Q"] = "writing"
    /\ written' = Append(written, qframe)
    /\ writersTok' = "free"
    /\ qframe' = NoFrame
    /\ IF stream = "closed" /\ qframe.kind = "call"
       THEN /\ IncomingResponse(qframe.id, Outcome("senderr", Nil))
            /\ pc' = [pc EXCEPT !["Q"] =
                          IF SendBlocks(qframe.id) THEN "blocked" ELSE "idle"]
       ELSE /\ UNCHANGED << outgoings, delivered, respChan >>
            /\ pc' = [pc EXCEPT !["Q"] = "idle"]
    /\ UNCHANGED << stream, incomings, incomingsTok, cur, res,
                    respCalls, connErr >>
    /\ UNCHANGED << seq, resultBox, nnotify >>
    /\ UNCHANGED << pipeVars, testVars, extVars >>

\* AsyncRequest.IsReady, conn.go 84-94: a result is in the result box (it
\* is taken and put back); the default case makes it return at once.
IsReady(id) == Len(resultBox[id]) > 0

\* AsyncRequest.Await taking the response that arrived, conn.go 102-120:
\* the result is prepared and put in the result box.
Await(id) ==
    /\ id <= seq
    /\ Len(respChan[id]) > 0
    /\ respChan' = [respChan EXCEPT ![id] = Tail(@)]
    /\ resultBox' = [resultBox EXCEPT ![id] = Append(@, Head(respChan[id]))]
    /\ UNCHANGED << stream, incomings, incomingsTok, writersTok, pc, cur, res,
                    written, respCalls, connErr >>
    /\ UNCHANGED << seq, outgoings, delivered, qframe, nnotify >>
    /\ UNCHANGED << pipeVars, testVars, extVars >>

\* AsyncRequest.Await returning on `<-ctx.Done()`, conn.go 114-115: the
\* context's error is returned and nothing else is touched.  When a
\* response is ready as well, select takes either case.
AwaitCtxDone(id) ==
    /\ id <= seq
    /\ pc["Q"] = "idle"
    /\ awaitErr' = awaitErr \cup {id}
    /\ UNCHANGED << stream, incomings, incomingsTok, writersTok, pc, cur, res,
                    written, respCalls, connErr >>
    /\ UNCHANGED << pipeVars, outVars, testVars, handles, closes, srvVars, auxVars >>

(* ------------------- the engine with arbitrary users ------------------ *)

\* The peer sends a call or a notification.
PeerRequest ==
    /\ nread < MaxRead
    /\ \E call \in BOOLEAN : ReadRequest(call, "any", NoParam)
    /\ UNCHANGED << testVars, extVars >>

\* The peer sends a Response carrying any outbound identifier.
PeerResponse ==
    /\ nread < MaxRead
    /\ \E id \in OutIDs, msg \in PeerResponses : ReadResponse(id, msg)

PeerGarbage == ReadFail("framing")

ReadClosed == ReadFail("closing")

\* An arbitrary Preempter / Handler returns.
Preempt == \E o \in AnyOutcomes : PreemptReturn(o) /\ UNCHANGED << testVars, extVars >>

Handle == \E o \in AnyOutcomes : HandleReturn(o) /\ UNCHANGED << testVars, extVars >>

\* A user goroutine calls Response for a call that a handler deferred (the
\* documented use, conn.go 480-482), again after it was answered, or with
\* an identifier that is in the table no more or not yet.
UserResponse ==
    \E id \in CallIDs :
        /\ incomings[id] # NoEntry => entries[incomings[id]].deferred
        /\ \E o \in RespondOutcomes : ResponseCall(id, o)
        /\ UNCHANGED << testVars, extVars >>

UserCancel == \E id \in CallIDs : Cancel(id) /\ UNCHANGED << testVars, extVars >>

UserAwait == \E id \in OutIDs : Await(id)

\* The caller's context is done while it awaits.
UserAwaitCtxDone == \E id \in OutIDs : AwaitCtxDone(id)

\* The steps of the three goroutines of the engine and of the shared
\* reply path.
Pipeline ==
    \/ RegTake
    \/ RegWrite
    \/ MRecv
    \/ MDeliver
    \/ \E t \in {"M", "D"} : ReplyBegin(t)
    \/ \E t \in {"M", "D", "U"} : WriteAcquire(t)
    \/ \E t \in {"M", "D", "U"} : WriteDoneReply(t)

\* The pipeline and its shutdown once the reader has stopped.
Engine ==
    \/ Pipeline
    \/ MRecvClosed
    \/ MDone
    \/ DDone

\* The inbound side: the peer's requests through the pipeline, with users
\* calling Response and Cancel at any time.
Next ==
    \/ Engine
    \/ PeerRequest
    \/ PeerGarbage
    \/ Preempt
    \/ Handle
    \/ UserResponse
    \/ UserCancel

Spec == Init /\ [][Next]_vars

\* The outbound side: Request, Notify and Await against a peer that sends
\* Responses, and a stream that may fail or be closed.
OutNext ==
    \/ Request
    \/ Notify
    \/ WriteAcquire("Q")
    \/ WriteDoneQ
    \/ UserAwait
    \/ UserAwaitCtxDone
    \/ PeerResponse
    \/ PeerGarbage
    \/ ReadClosed
    \/ CloseStream
    \/ MRecvClosed
    \/ MDone
    \/ DDone

OutSpec == Init /\ [][OutNext]_vars

\* What handlers return when only the writes matter: not handled, deferred,
\* or a result.
WriterOutcomes ==
    { Outcome("ErrNotHandled", Nil), Outcome("ErrAsyncResponse", Nil),
      Outcome("nil", 1) }

WriterPreempt ==
    \E o \in WriterOutcomes : PreemptReturn(o) /\ UNCHANGED << testVars, extVars >>

WriterHandle ==
    \E o \in WriterOutcomes \ { Outcome("ErrNotHandled", Nil) } :
        HandleReturn(o) /\ UNCHANGED << testVars, extVars >>

\* Response for a call that a handler deferred and that is still in the
\* table: the Response that writes.
WriterResponse ==
    \E id \in CallIDs :
        /\ incomings[id] # NoEntry
        /\ entries[incomings[id]].deferred
        /\ ResponseCall(id, Outcome("nil", 1))
        /\ UNCHANGED << testVars, extVars >>

\* Every writer at once, on a stream that stays up: engine replies,
\* Response, Request and Notify.
WriterNext ==
    \/ Pipeline
    \/ PeerRequest
    \/ WriterPreempt
    \/ WriterHandle
    \/ WriterResponse
    \/ Request
    \/ Notify
    \/ WriteAcquire("Q")
    \/ WriteDoneQ

WriterSpec == Init /\ [][WriterNext]_vars

(* ----------------------- Connection.Close and Wait -------------------- *)

\* IsClosingError, part_019 186-216: the error is, at its root, io.EOF,
\* io.ErrClosedPipe or "use of closed network connection".
IsClosingErrorNever(err) == FALSE

IsClosingError(err) == err = "closing"

\* What closer.Close() may return: nil, on a stream that is closed already
\* possibly a closing error, or an error of the closer that is none.
CloserErrors ==
    IF stream = "open" THEN {"nil", "closefailed"} ELSE {"nil", "closing"}

\* async.isDone / `<-a.ready`: deliverMessages has run its deferred
\* c.async.done().
ReaderStopped == pc["R"] = "done"

Finished == pc["D"] = "done"

\* The error Close returns for the error err of one of its two steps.
CloseResult(err) == IF err # "nil" /\ ~IsClosingError(err) THEN err ELSE "nil"

\* Connection.Close, conn.go 524-529: c.closer.Close().  An error that is
\* no closing error is returned at once; the stream is then taken to be
\* left as it was.
CloseCall ==
    /\ pc["C"] = "idle"
    /\ Len(closes) < MaxClose
    /\ \E err \in CloserErrors :
          IF CloseResult(err) # "nil"
          THEN /\ closes' = Append(closes, CloseResult(err))
               /\ UNCHANGED << stream, pc >>
          ELSE /\ stream' = "closed"
               /\ pc' = [pc EXCEPT !["C"] = "closing"]
               /\ UNCHANGED closes
    /\ UNCHANGED << incomings, incomingsTok, writersTok, cur, res,
                    written, respCalls, connErr >>
    /\ UNCHANGED << pipeVars, outVars, testVars, awaitErr, handles, srvVars, auxVars >>

\* conn.go 530-535: c.Wait() has returned the stored error.
CloseReturn ==
    /\ pc["C"] = "closing"
    /\ Finished
    /\ closes' = Append(closes, CloseResult(connErr))
    /\ pc' = [pc EXCEPT !["C"] = "idle"]
    /\ UNCHANGED << stream, incomings, incomingsTok, writersTok, cur, res,
                    written, respCalls, connErr >>
    /\ UNCHANGED << pipeVars, outVars, testVars, awaitErr, handles, srvVars, auxVars >>

\* Connection.Wait, conn.go 516-518 and async.wait: blocks on a.ready,
\* then returns the stored error.
WaitReturn ==
    /\ pc["W"] = "idle"
    /\ Finished
    /\ pc' = [pc EXCEPT !["W"] = "returned"]
    /\ res' = [res EXCEPT !["W"] = Outcome(connErr, Nil)]
    /\ UNCHANGED << stream, incomings, incomingsTok, writersTok, cur,
                    written, respCalls, connErr >>
    /\ UNCHANGED << pipeVars, outVars, testVars, extVars >>

\* What the handlers return when only their returning matters.
CloseOutcomes == { Outcome("ErrNotHandled", Nil), Outcome("nil", 1) }

ClosePreempt ==
    \E o \in CloseOutcomes : PreemptReturn(o) /\ UNCHANGED << testVars, extVars >>

CloseHandle ==
    \E o \in CloseOutcomes : HandleReturn(o) /\ UNCHANGED << testVars, extVars >>

\* A connection that serves the peer's requests while a user closes it,
\* the peer closes the stream, or the stream fails.
CloseNext ==
    \/ Engine
    \/ PeerRequest
    \/ PeerGarbage
    \/ ReadClosed
    \/ CloseStream
    \/ ClosePreempt
    \/ CloseHandle
    \/ CloseCall
    \/ CloseReturn
    \/ WaitReturn

\* Every goroutine that can run is scheduled, and every handler returns.
CloseSpec == Init /\ [][CloseNext]_vars /\ WF_vars(CloseNext)

(***************************************************************************)
(* newConnection from the point where the maps are in their channels       *)
(* (conn.go 186-188) to its return: the three goroutines are started one   *)
(* after the other and the Writer is put in its channel last.  The Binder  *)
(* has had the Connection, so Request and Notify may be called meanwhile.  *)
(***************************************************************************)
\* newConnection ("N") has made the channels and filled the two maps; no
\* goroutine runs yet and c.writers is empty.
StartInit ==
    /\ stream = "open"
    /\ nread = 0
    /\ peerSeq = 0
    /\ entries = << >>
    /\ incomings = [i \in CallIDs |-> NoEntry]
    /\ incomingsTok = "free"
    /\ writersTok = "N"
    /\ pc = [t \in Threads |->
               IF t \in {"R", "M", "D"} THEN "unstarted" ELSE "idle"]
    /\ cur = [t \in Threads |-> NoEntry]
    /\ res = [t \in Threads |-> NoOutcome]
    /\ q = << >>
    /\ mok = TRUE
    /\ written = << >>
    /\ handled = << >>
    /\ seq = 0
    /\ outgoings = {}
    /\ respChan = [i \in OutIDs |-> << >>]
    /\ resultBox = [i \in OutIDs |-> << >>]
    /\ delivered = [i \in OutIDs |-> 0]
    /\ qframe = NoFrame
    /\ respCalls = [i \in CallIDs |-> 0]
    /\ nnotify = 0
    /\ connErr = "nil"
    /\ accumulator = 0
    /\ waiters = {}
    /\ forks = {}
    /\ calls = [n \in TestNames |-> Nil]
    /\ InitExt
    /\ script = << >>

\* A Writer released as soon as the Connection exists.
GoroutinesAny == TRUE

\* The three `go` statements precede c.writers <- conn.Framer.Writer(rwc).
GoroutinesStarted == \A t \in {"R", "M", "D"} : pc[t] # "unstarted"

\* go c.readIncoming / go c.manageQueue / go c.deliverMessages: goroutine
\* t is started, at its first statement, once the `go` before it (of
\* goroutine prev; t itself for the first) has been executed.
StartGoroutine(t, prev, first) ==
    /\ pc[t] = "unstarted"
    /\ pc[prev] = "unstarted" => prev = t
    /\ pc' = [pc EXCEPT ![t] = first]
    /\ UNCHANGED << stream, incomings, incomingsTok, writersTok, cur, res,
                    written, respCalls, connErr >>
    /\ UNCHANGED << pipeVars, outVars, testVars, extVars >>

\* c.writers <- conn.Framer.Writer(rwc): the last statement before return.
ReleaseWriter ==
    /\ writersTok = "N"
    /\ GoroutinesStarted
    /\ writersTok' = "free"
    /\ UNCHANGED << stream, incomings, incomingsTok, pc, cur, res,
                    written, respCalls, connErr >>
    /\ UNCHANGED << pipeVars, outVars, testVars, extVars >>

\* The connection from its construction on: Request and Notify, the
\* replies to the peer's requests, and a stream that may be closed under
\* them.
StartNext ==
    \/ StartGoroutine("R", "R", "read")
    \/ StartGoroutine("M", "R", "loop")
    \/ StartGoroutine("D", "M", "recv")
    \/ ReleaseWriter
    \/ Request
    \/ Notify
    \/ WriteAcquire("Q")
    \/ WriteDoneQ
    \/ CloseStream
    \/ PeerRequest
    \/ Pipeline
    \/ ClosePreempt
    \/ CloseHandle

StartSpec == StartInit /\ [][StartNext]_vars

(* ---------------------- a connection with no Handler ------------------ *)

\* noptHandler.Handle, the default newConnection puts in place of a nil
\* Handler (conn.go 182-184): it returns ErrNotHandled for every request.
NoptHandle ==
    /\ HandleReturn(Outcome("ErrNotHandled", Nil))
    /\ UNCHANGED << testVars, extVars >>

\* A connection bound with a Preempter and no Handler, whose user may
\* cancel inbound calls.
DefaultNext ==
    \/ Engine
    \/ PeerRequest
    \/ PeerGarbage
    \/ ReadClosed
    \/ Preempt
    \/ NoptHandle
    \/ UserCancel

DefaultSpec == Init /\ [][DefaultNext]_vars

(* -------------------- listeners, idle timeout, Server ----------------- *)

\* Everything of the single connection, which the server leaves alone.
connVars == << stream, incomings, incomingsTok, writersTok, pc, cur, res,
               written, respCalls, connErr, pipeVars, outVars, testVars,
               awaitErr, handles, closes, auxVars >>

Panicked == panicked # "none"

\* Close of the wrapped listener.  netListener.Close (net.go 63-75) returns
\* what net.Listener.Close returns; netPiper.Close (net.go 157-162) and
\* ioPiper.Close (net.go 221-227) do close(l.done), which panics when the
\* channel is closed already.
ClosePanics == listen \in {"pipe", "io"} /\ ~lis.open

\* idleListener.run, part_019 335-339: with connections in the list watch
\* the first one, else arm the timer.
ArmAlways(cs) == "timer"

Arm(cs) == IF Len(cs) > 0 THEN "watch" ELSE "timer"

\* NewIdleListener(timeout, wrap) on a new listener of kind k (part_019
\* 260-271: go l.run()) and Serve (part_019 108-118: go server.run(ctx)).
Serve(k) ==
    /\ listen = "none"
    /\ listen' = k
    /\ lis' = [lis EXCEPT !.open = TRUE, !.run = Arm(<< >>)]
    /\ srv' = [srv EXCEPT !.pc = "accept"]
    /\ UNCHANGED << cstate, lcloses, panicked, connVars >>

\* The connection dialed next.
NextConn(i) == cstate[i] = "none" /\ \A j \in Conns : j < i => cstate[j] # "none"

\* l.listen.Accept returned a connection (part_019 287, 306-310); Accept
\* goes on to send it to run.  A closed netPiper or ioPiper may still
\* hand out a connection being dialed (the select of net.go 144-153).
AcceptConn ==
    /\ ~Panicked
    /\ srv.pc = "accept"
    /\ lis.open \/ listen # "net"
    /\ \E i \in Conns :
          /\ NextConn(i)
          /\ srv' = [srv EXCEPT !.pc = "send", !.cur = i]
          /\ cstate' = [cstate EXCEPT ![i] = "sending"]
    /\ UNCHANGED << listen, lis, lcloses, panicked, connVars >>

\* async.setError of the Server, reached only for an error that is no
\* closing error (part_019 139-141, 152-154).
ServerError(err) ==
    IF ~IsClosingError(err) /\ srv.err = "nil" THEN err ELSE srv.err

\* Server.run after Accept failed with err, part_019 138-144.
AcceptFailed(err) ==
    srv' = [srv EXCEPT !.pc = "wait", !.err = ServerError(err),
                       !.log = Append(@, err), !.accepted = err]

\* The error of idleListener.Accept when the wrapped Accept failed with a
\* closing error, part_019 289-301.
AcceptErrorAsIs(timedOut) == "closing"

AcceptError(timedOut) == IF timedOut THEN "ErrIdleTimeout" ELSE "closing"

\* l.listen.Accept failed because the wrapped listener is closed.
AcceptClosed ==
    /\ ~Panicked
    /\ srv.pc = "accept"
    /\ ~lis.open
    /\ lis' = [lis EXCEPT !.closed = TRUE]
    /\ AcceptFailed(AcceptError(lis.wasTimeout))
    /\ UNCHANGED << listen, cstate, lcloses, panicked, connVars >>

\* l.listen.Accept failed with an error that is no closing error.
AcceptFails ==
    /\ ~Panicked
    /\ srv.pc = "accept"
    /\ lis.open
    /\ AcceptFailed("acceptfailed")
    /\ UNCHANGED << listen, lis, cstate, lcloses, panicked, connVars >>

\* run receives from l.newConns (part_019 346-348), Accept returns.
RunRecv ==
    /\ ~Panicked
    /\ lis.run \in {"timer", "watch"}
    /\ srv.pc = "send"
    /\ lis' = [lis EXCEPT !.conns = Append(@, srv.cur),
                          !.run = Arm(Append(lis.conns, srv.cur))]
    /\ srv' = [srv EXCEPT !.pc = "bind"]
    /\ cstate' = [cstate EXCEPT ![srv.cur] = "accepted"]
    /\ UNCHANGED << listen, lcloses, panicked, connVars >>

\* run sees l.closed closed and returns (part_019 342-344).
RunClosed ==
    /\ ~Panicked
    /\ lis.run \in {"timer", "watch"}
    /\ lis.closed
    /\ lis' = [lis EXCEPT !.run = "done"]
    /\ UNCHANGED << listen, srv, cstate, lcloses, panicked, connVars >>

\* The timer went off (part_019 350-354): close(l.wasTimeout), which
\* panics the second time, then l.listen.Close().
RunTimeout ==
    /\ ~Panicked
    /\ lis.run = "timer"
    /\ IF lis.wasTimeout
       THEN /\ panicked' = "run"
            /\ lis' = [lis EXCEPT !.fired = @ + 1]
       ELSE IF ClosePanics
            THEN /\ panicked' = "run"
                 /\ lis' = [lis EXCEPT !.wasTimeout = TRUE, !.fired = @ + 1]
            ELSE /\ lis' = [lis EXCEPT !.wasTimeout = TRUE, !.open = FALSE,
                                       !.fired = @ + 1]
                 /\ UNCHANGED panicked
    /\ UNCHANGED << listen, srv, cstate, lcloses, connVars >>

\* idleCloser.closed is closed: a Read on the connection failed with a
\* closing error (part_019 229-238).
Reported(i) == cstate[i] \in {"reported", "terminated"}

\* The first connection of the list reported its closure (part_019
\* 356-358).
RunFirstClosed ==
    /\ ~Panicked
    /\ lis.run = "watch"
    /\ Reported(Head(lis.conns))
    /\ lis' = [lis EXCEPT !.conns = Tail(@), !.run = Arm(Tail(lis.conns))]
    /\ UNCHANGED << listen, srv, cstate, lcloses, panicked, connVars >>

\* Connection.async.isDone: the connection's goroutines have returned.
Done(i) == cstate[i] \in {"terminated", "broken"}

\* onlyActive, part_019 168-179.
OnlyActive(cs) == { c \in cs : ~Done(c) }

\* Server.run with the accepted connection, part_019 146-159: newConnection
\* returned a running connection (err = "nil") or the error of Bind.
Bind(err) ==
    /\ ~Panicked
    /\ srv.pc = "bind"
    /\ srv' = [srv EXCEPT
                 !.pc = "accept",
                 !.cur = 0,
                 !.active = OnlyActive(@) \cup
                               (IF err = "nil" THEN {srv.cur} ELSE {}),
                 !.err = IF err = "nil" THEN @ ELSE ServerError(err),
                 !.log = IF err = "nil" THEN @ ELSE Append(@, err)]
    /\ cstate' = [cstate EXCEPT
                    ![srv.cur] = IF err = "nil" THEN "running" ELSE "failed"]
    /\ UNCHANGED << listen, lis, lcloses, panicked, connVars >>

BindOk == Bind("nil")

BindFails == \E err \in {"bindfailed", "closing"} : Bind(err)

\* A Read on connection i fails with a closing error: its stream was
\* closed by one of the two ends.
ConnReport(i) ==
    /\ ~Panicked
    /\ cstate[i] = "running"
    /\ cstate' = [cstate EXCEPT ![i] = "reported"]
    /\ UNCHANGED << listen, lis, srv, lcloses, panicked, connVars >>

\* The goroutines of connection i return after the closing error.
ConnTerminate(i) ==
    /\ ~Panicked
    /\ cstate[i] = "reported"
    /\ cstate' = [cstate EXCEPT ![i] = "terminated"]
    /\ UNCHANGED << listen, lis, srv, lcloses, panicked, connVars >>

\* Connection i ends on a read error that is no closing error: nothing is
\* reported to the idleListener.
ConnBreak(i) ==
    /\ ~Panicked
    /\ cstate[i] = "running"
    /\ cstate' = [cstate EXCEPT ![i] = "broken"]
    /\ UNCHANGED << listen, lis, srv, lcloses, panicked, connVars >>

\* The wait for the active connections, part_019 161-165, has ended.
NoneAwaited == TRUE

AllTerminated == \A c \in srv.active : Done(c)

\* Server.run returns: the deferred s.async.done().
ServerDone ==
    /\ ~Panicked
    /\ srv.pc = "wait"
    /\ AllTerminated
    /\ srv' = [srv EXCEPT !.pc = "done"]
    /\ UNCHANGED << listen, lis, cstate, lcloses, panicked, connVars >>

\* Server.Wait returns the stored error (part_019 121-123).
ServerWait ==
    /\ ~Panicked
    /\ srv.waited = "blocked"
    /\ srv.pc = "done"
    /\ srv' = [srv EXCEPT !.waited = srv.err]
    /\ UNCHANGED << listen, lis, cstate, lcloses, panicked, connVars >>

\* idleListener.Close, part_019 317-323: l.listen.Close(), and the deferred
\* close of l.closed, which runs whether or not Close panics.
ListenerClose ==
    /\ ~Panicked
    /\ listen # "none"
    /\ lcloses < MaxListenerClose
    /\ lcloses' = lcloses + 1
    /\ IF ClosePanics
       THEN /\ panicked' = "Close"
            /\ lis' = [lis EXCEPT !.closed = TRUE]
       ELSE /\ lis' = [lis EXCEPT !.open = FALSE, !.closed = TRUE]
            /\ UNCHANGED panicked
    /\ UNCHANGED << listen, srv, cstate, connVars >>

\* A server on an idle-timeout listener, with a Binder that does not fail
\* (serve_test.go 72-81).
IdleNext ==
    \/ \E k \in Kinds : Serve(k)
    \/ AcceptConn
    \/ AcceptClosed
    \/ RunRecv
    \/ RunClosed
    \/ RunTimeout
    \/ RunFirstClosed
    \/ BindOk
    \/ \E i \in Conns : ConnReport(i)
    \/ \E i \in Conns : ConnTerminate(i)
    \/ ServerDone
    \/ ServerWait
    \/ ListenerClose

IdleSpec == Init /\ [][IdleNext]_vars

\* The same with any listener, Binder and stream errors.
ServeNext ==
    \/ IdleNext
    \/ AcceptFails
    \/ BindFails
    \/ \E i \in Conns : ConnBreak(i)

ServeSpec == Init /\ [][ServeNext]_vars

(* -------------------------------- NetPipe ----------------------------- *)

\* Everything but the netPiper.
notPiper == << stream, incomings, incomingsTok, writersTok, pc, cur, res,
               written, respCalls, connErr, pipeVars, outVars, testVars,
               awaitErr, handles, closes, srvVars, wire, pair, handle, async, run >>

notWire  == << stream, incomings, incomingsTok, writersTok, pc, cur, res,
               written, respCalls, connErr, pipeVars, outVars, testVars,
               awaitErr, handles, closes, srvVars, piper, pair, handle, async, run >>

notPair  == << stream, incomings, incomingsTok, writersTok, pc, cur, res,
               written, respCalls, connErr, pipeVars, outVars, testVars,
               awaitErr, handles, closes, srvVars, piper, wire, handle, async, run >>

notHandle == << stream, incomings, incomingsTok, writersTok, pc, cur, res,
               written, respCalls, connErr, pipeVars, outVars, testVars,
               awaitErr, handles, closes, srvVars, piper, wire, pair, async, run >>

notAsync  == << stream, incomings, incomingsTok, writersTok, pc, cur, res,
               written, respCalls, connErr, pipeVars, outVars, testVars,
               awaitErr, handles, closes, srvVars, piper, wire, pair, handle, run >>

notRun    == << stream, incomings, incomingsTok, writersTok, pc, cur, res,
               written, respCalls, connErr, pipeVars, outVars, testVars,
               awaitErr, handles, closes, srvVars, piper, wire, pair, handle, async >>

PiperPanicked == piper.closes > 1

\* netPiper.Dial, net.go 170-175, up to the send: c, w := net.Pipe(), then
\* l.dialed <- w blocks until an Accept receives.
DialBegin ==
    /\ ~PiperPanicked
    /\ piper.made < MaxDials
    /\ piper' = [piper EXCEPT !.made = @ + 1, !.dialing = @ \cup {piper.made + 1}]
    /\ UNCHANGED notPiper

\* Accept is called, net.go 142-143.
AcceptBegin(a) ==
    /\ ~PiperPanicked
    /\ piper.acc[a].st = "idle"
    /\ piper' = [piper EXCEPT !.acc[a].st = "select"]
    /\ UNCHANGED notPiper

\* The cases of the select that may be chosen, net.go 144-153: a receive
\* from dialed when a Dial is blocked on its send, done when it is closed.
Ready == (IF piper.dialing # {} THEN {"dialed"} ELSE {}) \cup
         (IF piper.done THEN {"done"} ELSE {})

\* case rwc := <-l.dialed: Accept returns the w end of pipe p, and the
\* Dial of p returns its c end.
AcceptDialed(a) ==
    /\ ~PiperPanicked
    /\ piper.acc[a].st = "select"
    /\ "dialed" \in Ready
    /\ \E p \in piper.dialing :
          piper' = [piper EXCEPT !.acc[a] = [st |-> "stream", p |-> p],
                                 !.dialing = @ \ {p},
                                 !.dialed = @ \cup {p}]
    /\ UNCHANGED notPiper

\* case <-l.done: io.EOF.
AcceptDone(a) ==
    /\ ~PiperPanicked
    /\ piper.acc[a].st = "select"
    /\ "done" \in Ready
    /\ piper' = [piper EXCEPT !.acc[a].st = "EOF"]
    /\ UNCHANGED notPiper

\* case <-ctx.Done(): the context's error.
AcceptCtxDone(a) ==
    /\ ~PiperPanicked
    /\ piper.acc[a].st = "select"
    /\ piper' = [piper EXCEPT !.acc[a].st = "ctx"]
    /\ UNCHANGED notPiper

\* netPiper.Close, net.go 157-162: close(l.done); a second close of the
\* channel panics.
PiperClose ==
    /\ ~PiperPanicked
    /\ piper.closes < MaxListenerClose
    /\ piper' = [piper EXCEPT !.done = TRUE, !.closes = @ + 1]
    /\ UNCHANGED notPiper

PiperNext ==
    \/ DialBegin
    \/ PiperClose
    \/ \E a \in Acceptors :
          \/ AcceptBegin(a)
          \/ AcceptDialed(a)
          \/ AcceptDone(a)
          \/ AcceptCtxDone(a)

PiperSpec == Init /\ [][PiperNext]_vars

(***************************************************************************)
(* Messages, their wire encoding and the two framings                     *)
(* (message.go, wire.go, frame.go).                                        *)
(*                                                                         *)
(* A JSON value is a record [t, n, s]: a number n, a string s, null, a raw *)
(* blob with text s, an error object with code n and message s, or the     *)
(* absence of the member.  A byte stream is a sequence of tokens [k, j]:   *)
(* a header line, an opening or closing brace, or one member k with its    *)
(* value j.                                                                *)
(***************************************************************************)
JNum(n) == [t |-> "num", n |-> n, s |-> ""]
JStr(s) == [t |-> "str", n |-> 0, s |-> s]
JRaw(s) == [t |-> "raw", n |-> 0, s |-> s]
JErr(c, m) == [t |-> "err", n |-> c, s |-> m]
JNull == [t |-> "null", n |-> 0, s |-> ""]
JAbsent == [t |-> "absent", n |-> 0, s |-> ""]

Tok(k, j) == [k |-> k, j |-> j]

\* An ID holds a name and a number; the zero value is the default ID.
DefaultID == [name |-> "", number |-> 0]
NewNumberID(v) == [name |-> "", number |-> v]
NewStringID(v) == [name |-> v, number |-> 0]
IDs == {DefaultID, NewNumberID(1), NewStringID("a")}

\* The encoding of an ID by a marshaller that writes null for the default ID.
IDMarshalNull(id) ==
    IF id = DefaultID THEN JNull
    ELSE IF id.name # "" THEN JStr(id.name) ELSE JNum(id.number)

\* ID.MarshalJSON: the name when there is one, the number otherwise.
IDMarshal(id) == IF id.name # "" THEN JStr(id.name) ELSE JNum(id.number)

\* ID.UnmarshalJSON: reset, then a number if the value decodes as an int64
\* (null decodes and leaves 0), a string otherwise.
IDUnmarshal(j) ==
    IF j.t = "num" THEN NewNumberID(j.n)
    ELSE IF j.t = "str" THEN NewStringID(j.s)
    ELSE DefaultID

\* The errors a Response can carry: none, a plain Go error, a wire *Error.
\* An *Error with its code and message.  inner is the message of the
\* *Error an error wraps, empty when it wraps none.
WireError(code, msg) == [kind |-> "wire", code |-> code, msg |-> msg, inner |-> ""]

NoErr == [kind |-> "nil", code |-> 0, msg |-> "", inner |-> ""]
PlainErr == [kind |-> "plain", code |-> 0, msg |-> "e", inner |-> ""]
WireErr == WireError(1, "w")

\* fmt.Errorf("o: %w", err) of an *Error with code 2 and message "i".
WrapErr == [kind |-> "wrapping", code |-> 2, msg |-> "o: i", inner |-> "i"]
Errs == {NoErr, PlainErr, WireErr, WrapErr}

\* toError, message.go 195-212: nil stays nil; errors.As finds the *Error
\* the error is or wraps, and that *Error is returned; any other error
\* becomes an *Error with code 0 and its text as the message.
toError(err) ==
    IF err.kind = "plain" THEN WireError(0, err.msg)
    ELSE IF err.kind = "wrapping" THEN WireError(err.code, err.inner)
    ELSE err

\* Raw blobs: the empty blob, the text null, and some other JSON text.
Blobs == {"", "null", "[1]"}

Msg(type, id, method, params, result, err) ==
    [type |-> type, id |-> id, method |-> method, params |-> params,
     result |-> result, err |-> err]

NewCall(id, method, params) == Msg("call", id, method, params, "", NoErr)
NewNotification(method, params) ==
    Msg("notification", DefaultID, method, params, "", NoErr)
NewResponse(id, result, err) == Msg("response", id, "", "", result, err)
DecodeError(text) == Msg("error", DefaultID, "", "", "", WireError(0, text))

Methods == {"m"}

\* The messages a program can build with the constructors.
Messages ==
    { NewCall(id, m, p) : id \in IDs, m \in Methods, p \in Blobs }
    \cup { NewNotification(m, p) : m \in Methods, p \in Blobs }
    \cup { NewResponse(id, r, e) : id \in {NewNumberID(1), NewStringID("a")},
                                  r \in Blobs, e \in Errs }

\* A *json.RawMessage member: an empty blob and the text null are both
\* written as JSON null.
BlobMarshal(b) == IF b \in {"", "null"} THEN JNull ELSE JRaw(b)

\* A JSON null leaves the pointer nil, hence the blob empty.
BlobUnmarshal(j) == IF j.t = "raw" THEN j.s ELSE ""

VersionTok == Tok("jsonrpc", JStr("2.0"))

\* Call.MarshalJSON: wireRequest{Method, Params, ID}.
CallMarshal(r) ==
    << Tok("{", JNull), VersionTok, Tok("method", JStr(r.method)),
       Tok("params", BlobMarshal(r.params)), Tok("id", IDMarshal(r.id)),
       Tok("}", JNull) >>

\* Notification.MarshalJSON: wireRequest{Method, Params}.
NotificationMarshal(r) ==
    << Tok("{", JNull), VersionTok, Tok("method", JStr(r.method)),
       Tok("params", BlobMarshal(r.params)), Tok("}", JNull) >>

\* A Response marshaller that writes the result member unconditionally.
ResponseMarshalBoth(r) ==
    LET e == toError(r.err) IN
    << Tok("{", JNull), VersionTok, Tok("result", BlobMarshal(r.result)) >>
    \o (IF e.kind = "nil" THEN << >> ELSE << Tok("error", JErr(e.code, e.msg)) >>)
    \o << Tok("id", IDMarshal(r.id)), Tok("}", JNull) >>

\* Response.MarshalJSON: the error member when toError gives one, and the
\* result member only when it gives none.
ResponseMarshal(r) ==
    LET e == toError(r.err) IN
    << Tok("{", JNull), VersionTok >>
    \o (IF e.kind = "nil" THEN << Tok("result", BlobMarshal(r.result)) >>
        ELSE << Tok("error", JErr(e.code, e.msg)) >>)
    \o << Tok("id", IDMarshal(r.id)), Tok("}", JNull) >>

\* EncodeMessage: the JSON form of the message, by its variant.
EncodeMessage(msg) ==
    CASE msg.type = "call" -> CallMarshal(msg)
      [] msg.type = "notification" -> NotificationMarshal(msg)
      [] OTHER -> ResponseMarshal(msg)

\* The value of member k in a JSON object given as tokens.
Member(data, k) ==
    IF \E i \in 1..Len(data) : data[i].k = k
    THEN data[CHOOSE i \in 1..Len(data) : data[i].k = k].j
    ELSE JAbsent

\* The text is one complete JSON object.
WellFormed(data) ==
    /\ Len(data) >= 2
    /\ data[1].k = "{"
    /\ data[Len(data)].k = "}"
    /\ \A i \in 2..(Len(data) - 1) : data[i].k \notin {"{", "}", "", "Content-Length"}

\* A pointer member is nil when the member is absent or null.
IsNil(j) == j.t \in {"absent", "null"}

\* A decoder that takes every envelope with a method for a Call.
DecodeMessageCalls(data) ==
    IF ~WellFormed(data) THEN DecodeError("unmarshaling jsonrpc message")
    ELSE
    LET method == IF Member(data, "method").t = "str" THEN Member(data, "method").s ELSE ""
        error == Member(data, "error")
    IN  IF method = ""
        THEN IF IsNil(Member(data, "id")) THEN DecodeError("JSON-RPC invalid request")
             ELSE NewResponse(IDUnmarshal(Member(data, "id")),
                              BlobUnmarshal(Member(data, "result")),
                              IF IsNil(error) THEN NoErr
                              ELSE WireError(error.n, error.s))
        ELSE NewCall(IDUnmarshal(Member(data, "id")), method,
                     BlobUnmarshal(Member(data, "params")))

\* DecodeMessage: unmarshal into the combined envelope, then classify by
\* the method and the id.
DecodeMessage(data) ==
    IF ~WellFormed(data) THEN DecodeError("unmarshaling jsonrpc message")
    ELSE IF Member(data, "jsonrpc").t = "str" /\ Member(data, "jsonrpc").s # "2.0"
    THEN DecodeError("invalid RPC version")
    ELSE
    LET method == IF Member(data, "method").t = "str" THEN Member(data, "method").s ELSE ""
        id == Member(data, "id")
        error == Member(data, "error")
    IN  IF method = ""
        THEN IF IsNil(id) THEN DecodeError("JSON-RPC invalid request")
             ELSE NewResponse(IDUnmarshal(id),
                              BlobUnmarshal(Member(data, "result")),
                              IF IsNil(error) THEN NoErr
                              ELSE WireError(error.n, error.s))
        ELSE IF IsNil(id)
        THEN NewNotification(method, BlobUnmarshal(Member(data, "params")))
        ELSE NewCall(IDUnmarshal(id), method, BlobUnmarshal(Member(data, "params")))

\* The empty line that ends a header block.
BlankLine == Tok("", JNull)

\* A line in a header block that has no colon.
NoColon == Tok("nocolon", JNull)

\* rawWriter.Write: the encoded message and nothing else.
RawWrite(msg) == EncodeMessage(msg)

\* A header writer that counts the header line into the length.
HeaderWriteLong(msg) ==
    << Tok("Content-Length", JNum(Len(EncodeMessage(msg)) + 1)), BlankLine >>
    \o EncodeMessage(msg)

\* headerWriter.Write: a Content-Length header with the length of the
\* encoded message, the separator, then the encoded message.
HeaderWrite(msg) ==
    << Tok("Content-Length", JNum(Len(EncodeMessage(msg)))), BlankLine >>
    \o EncodeMessage(msg)

WriteFrame(f, msg) == IF f = "raw" THEN RawWrite(msg) ELSE HeaderWrite(msg)

\* The length of the first complete JSON value of the stream, 0 if none.
FirstValue(bytes) ==
    IF \E i \in 1..Len(bytes) : bytes[i].k = "}"
    THEN CHOOSE i \in 1..Len(bytes) :
            bytes[i].k = "}" /\ \A j \in 1..(i - 1) : bytes[j].k # "}"
    ELSE 0

\* rawReader.Read: the decoder takes one JSON value off the stream and
\* DecodeMessage turns it into a message.
RawRead(bytes) ==
    LET n == FirstValue(bytes) IN
    [msg |-> DecodeMessage(SubSeq(bytes, 1, n)), rest |-> SubSeq(bytes, n + 1, Len(bytes))]

\* strconv.ParseInt(value, 10, 32) succeeds: the value is an integer that
\* fits 32 bits.  A value that does not is carried as text.
ParsesInt32(j) == j.t = "num"

\* A header reader that skips a line without a colon.
RECURSIVE ReadHeaderLenient(_, _, _)
ReadHeaderLenient(bytes, i, length) ==
    IF i > Len(bytes) THEN [err |-> "failed reading header line", length |-> 0, next |-> i]
    ELSE IF bytes[i] = BlankLine THEN [err |-> "", length |-> length, next |-> i + 1]
    ELSE IF bytes[i] = NoColon THEN ReadHeaderLenient(bytes, i + 1, length)
    ELSE IF bytes[i].k = "Content-Length"
    THEN IF ~ParsesInt32(bytes[i].j)
         THEN [err |-> "failed parsing Content-Length", length |-> 0, next |-> i + 1]
         ELSE IF bytes[i].j.n <= 0
         THEN [err |-> "invalid Content-Length", length |-> 0, next |-> i + 1]
         ELSE ReadHeaderLenient(bytes, i + 1, bytes[i].j.n)
    ELSE ReadHeaderLenient(bytes, i + 1, length)

\* The loop over the header lines of headerReader.Read, frame.go 192-224,
\* from line i on with the length found so far: up to the first empty line;
\* a line without colon and a Content-Length that is no 32-bit integer or
\* not positive are errors; any other header is ignored.
RECURSIVE ReadHeader(_, _, _)
ReadHeader(bytes, i, length) ==
    IF i > Len(bytes) THEN [err |-> "failed reading header line", length |-> 0, next |-> i]
    ELSE IF bytes[i] = BlankLine THEN [err |-> "", length |-> length, next |-> i + 1]
    ELSE IF bytes[i] = NoColon THEN [err |-> "invalid header line", length |-> 0, next |-> i + 1]
    ELSE IF bytes[i].k = "Content-Length"
    THEN IF ~ParsesInt32(bytes[i].j)
         THEN [err |-> "failed parsing Content-Length", length |-> 0, next |-> i + 1]
         ELSE IF bytes[i].j.n <= 0
         THEN [err |-> "invalid Content-Length", length |-> 0, next |-> i + 1]
         ELSE ReadHeader(bytes, i + 1, bytes[i].j.n)
    ELSE ReadHeader(bytes, i + 1, length)

\* headerReader.Read: the header block gives the length, exactly that many
\* bytes are read after it and decoded.
HeaderRead(bytes) ==
    LET h == ReadHeader(bytes, 1, 0)
        rest == SubSeq(bytes, h.next, Len(bytes))
    IN  IF h.err # "" THEN [msg |-> DecodeError(h.err), rest |-> rest]
        ELSE IF h.length = 0
        THEN [msg |-> DecodeError("missing Content-Length header"), rest |-> rest]
        ELSE IF h.length > Len(rest)
        THEN [msg |-> DecodeError("failed to ReadFull"), rest |-> << >>]
        ELSE [msg |-> DecodeMessage(SubSeq(rest, 1, h.length)),
              rest |-> SubSeq(rest, h.length + 1, Len(rest))]

ReadFrame(f, bytes) == IF f = "raw" THEN RawRead(bytes) ELSE HeaderRead(bytes)

Framers == {"raw", "header"}

\* A connection is given one of the two framers.
ChooseFramer(f) ==
    /\ wire.framing = "none"
    /\ wire' = [wire EXCEPT !.framing = f]
    /\ UNCHANGED notWire

\* Writer.Write of one message: its frame is appended to the stream.
WireWrite(msg) ==
    /\ wire.framing # "none"
    /\ Len(wire.wrote) < MaxFrames
    /\ wire.env = << >>
    /\ wire' = [wire EXCEPT !.wrote = Append(@, msg),
                            !.bytes = @ \o WriteFrame(wire.framing, msg)]
    /\ UNCHANGED notWire

\* Reader.Read: one frame is taken off the stream.
WireRead ==
    /\ wire.framing # "none"
    /\ Len(wire.bytes) > 0
    /\ LET r == ReadFrame(wire.framing, wire.bytes) IN
       wire' = [wire EXCEPT !.got = Append(@, r.msg), !.bytes = r.rest]
    /\ UNCHANGED notWire

\* The members a peer may put into an envelope, each possibly missing.
EnvIds == {JAbsent, JNull, JNum(0), JNum(1), JStr("a")}
EnvMethods == {JAbsent, JStr(""), JStr("m")}
EnvVersions == {JStr("2.0"), JStr("1.0")}

Opt(k, j) == IF j.t = "absent" THEN << >> ELSE << Tok(k, j) >>

\* The JSON objects a peer may send.
Envelopes ==
    { << Tok("{", JNull), Tok("jsonrpc", v) >>
      \o Opt("method", m) \o Opt("params", p) \o Opt("result", r)
      \o Opt("error", e) \o Opt("id", id) \o << Tok("}", JNull) >> :
        v \in EnvVersions, m \in EnvMethods, p \in {JAbsent, JRaw("[1]")},
        r \in {JAbsent, JRaw("[1]")}, e \in {JAbsent, JErr(1, "w")},
        id \in EnvIds }

\* The frame a peer makes of a JSON text.
PeerFrame(f, data) ==
    IF f = "raw" THEN data
    ELSE << Tok("Content-Length", JNum(Len(data))), BlankLine >> \o data

\* The peer sends one JSON object of any shape.
PeerWrite(data) ==
    /\ wire.framing # "none"
    /\ wire.env = << >>
    /\ wire.wrote = << >>
    /\ wire' = [wire EXCEPT !.env = data, !.bytes = PeerFrame(wire.framing, data)]
    /\ UNCHANGED notWire

DecodeNext ==
    \/ \E f \in Framers : ChooseFramer(f)
    \/ \E data \in Envelopes : PeerWrite(data)
    \/ WireRead

DecodeSpec == Init /\ [][DecodeNext]_vars

(***************************************************************************)
(* Two Connections joined by net.Pipe (conn.go, net.go 170-175).  Each     *)
(* side has its reader, its deliverer and a caller; a write to the pipe    *)
(* completes only when the reader of the other side reads it.  The         *)
(* Preempter handles nothing, so the queue manager only queues.            *)
(***************************************************************************)
Sides == {1, 2}
Other(s) == 3 - s

\* net.Pipe: the write of side s is complete once the other side's reader
\* has taken the message.
WriteComplete(s) == pair[s].out = "none"

\* Connection.Call on side s: Connection.write takes the Writer and starts
\* writing the call.
PairCall(s) ==
    /\ pair[s].cl = "idle"
    /\ pair[s].calls < MaxPairCalls
    /\ pair[s].wtok = "free"
    /\ pair' = [pair EXCEPT ![s].cl = "writing", ![s].wtok = "C",
                            ![s].out = "call", ![s].calls = @ + 1]
    /\ UNCHANGED notPair

\* The caller's write returns and the Writer goes back to its channel.
PairCallDone(s) ==
    /\ pair[s].cl = "writing"
    /\ WriteComplete(s)
    /\ pair' = [pair EXCEPT ![s].cl = "idle", ![s].wtok = "free"]
    /\ UNCHANGED notPair

\* readIncoming on side s, in reader.Read: it takes what the other side is
\* writing.  A Response goes to its pending call and the reader reads
\* again; a call has to be entered into the incomings map first.
PairRead(s) ==
    /\ pair[s].rd = "read"
    /\ pair[Other(s)].out # "none"
    /\ pair' = [pair EXCEPT ![s].rd = IF pair[Other(s)].out = "call" THEN "reg" ELSE "read",
                            ![Other(s)].out = "none"]
    /\ UNCHANGED notPair

\* pending := <-c.incomings; c.incomings <- pending; pending[id] = entry;
\* toQueue <- entry: the reader needs the map to be in its channel.
PairRegister(s) ==
    /\ pair[s].rd = "reg"
    /\ pair[s].tab = "free"
    /\ pair' = [pair EXCEPT ![s].rd = "read", ![s].q = @ + 1]
    /\ UNCHANGED notPair

\* deliverMessages takes the next entry and the Handler returns.
PairHandle(s) ==
    /\ pair[s].dl = "recv"
    /\ pair[s].q > 0
    /\ pair' = [pair EXCEPT ![s].dl = "reply", ![s].q = @ - 1]
    /\ UNCHANGED notPair

\* Connection.reply: the map is taken and kept until reply returns.
PairReplyBegin(s) ==
    /\ pair[s].dl = "reply"
    /\ pair[s].tab = "free"
    /\ pair' = [pair EXCEPT ![s].dl = "wtok", ![s].tab = "D"]
    /\ UNCHANGED notPair

\* Connection.write for the reply: the Writer is taken, the write starts.
PairReplyWrite(s) ==
    /\ pair[s].dl = "wtok"
    /\ pair[s].wtok = "free"
    /\ pair' = [pair EXCEPT ![s].dl = "writing", ![s].wtok = "D", ![s].out = "response"]
    /\ UNCHANGED notPair

\* The write of the reply returns: Writer and map go back.
PairReplyDone(s) ==
    /\ pair[s].dl = "writing"
    /\ WriteComplete(s)
    /\ pair' = [pair EXCEPT ![s].dl = "recv", ![s].wtok = "free", ![s].tab = "free"]
    /\ UNCHANGED notPair

PairNext ==
    \E s \in Sides :
        \/ PairCall(s)
        \/ PairCallDone(s)
        \/ PairRead(s)
        \/ PairRegister(s)
        \/ PairHandle(s)
        \/ PairReplyBegin(s)
        \/ PairReplyWrite(s)
        \/ PairReplyDone(s)

PairSpec == Init /\ [][PairNext]_vars

(***************************************************************************)
(* One AsyncRequest and the goroutines calling Await on it (conn.go        *)
(* 67-138).  response and result are channels with one slot each.          *)
(***************************************************************************)
Awaiters == {1, 2}

\* What a Response turns into in Await: the result or the response's error.
HandleAnswers == {"result", "rerr"}

\* incomingResponse hands the Response of the call to its channel; the id
\* is deleted from the map with it, so this happens once.
HandleAnswer(o) ==
    /\ ~handle.answered
    /\ handle' = [handle EXCEPT !.answered = TRUE, !.response = Append(@, o)]
    /\ UNCHANGED notHandle

\* Goroutine a calls Await and arrives at the select.
AwaitCall(a) ==
    /\ handle.aw[a].pc = "idle"
    /\ handle.aw[a].n < MaxAwaits
    /\ handle' = [handle EXCEPT !.aw[a].pc = "select", !.aw[a].n = @ + 1]
    /\ UNCHANGED notHandle

\* The context goroutine a passes to Await is done.
AwaitCtxCancel(a) ==
    /\ ~handle.aw[a].done
    /\ handle' = [handle EXCEPT !.aw[a].done = TRUE]
    /\ UNCHANGED notHandle

\* case resp := <-ar.response: the result is prepared from the Response.
AwaitResponse(a) ==
    /\ handle.aw[a].pc = "select"
    /\ Len(handle.response) > 0
    /\ handle' = [handle EXCEPT !.response = Tail(@),
                                !.aw[a].pc = "refill",
                                !.aw[a].r = Head(handle.response)]
    /\ UNCHANGED notHandle

\* case r = <-ar.result: a result prepared earlier is taken out of the box.
AwaitResult(a) ==
    /\ handle.aw[a].pc = "select"
    /\ Len(handle.result) > 0
    /\ handle' = [handle EXCEPT !.result = Tail(@),
                                !.aw[a].pc = "refill",
                                !.aw[a].r = Head(handle.result)]
    /\ UNCHANGED notHandle

\* case <-ctx.Done(): return ctx.Err().  The select may take this case
\* whenever the context is done, whatever else is ready.
AwaitDone(a) ==
    /\ handle.aw[a].pc = "select"
    /\ handle.aw[a].done
    /\ handle' = [handle EXCEPT !.aw[a].pc = "idle",
                                !.returned = Append(@, [a |-> a, out |-> "ctx"])]
    /\ UNCHANGED notHandle

\* A refill of the result box that drops the result.
RefillNothing(a) == handle.result

\* ar.result <- r.
Refill(a) == Append(handle.result, handle.aw[a].r)

\* The refill of the box, which needs the slot to be free, and the return
\* of the outcome.
AwaitReturn(a) ==
    /\ handle.aw[a].pc = "refill"
    /\ Len(handle.result) = 0
    /\ handle' = [handle EXCEPT !.result = Refill(a),
                                !.aw[a].pc = "idle",
                                !.aw[a].r = "none",
                                !.returned = Append(@, [a |-> a, out |-> handle.aw[a].r])]
    /\ UNCHANGED notHandle

HandleNext ==
    \/ \E o \in HandleAnswers : HandleAnswer(o)
    \/ \E a \in Awaiters :
          \/ AwaitCall(a)
          \/ AwaitCtxCancel(a)
          \/ AwaitResponse(a)
          \/ AwaitResult(a)
          \/ AwaitDone(a)
          \/ AwaitReturn(a)

HandleSpec == Init /\ [][HandleNext]_vars

\* The two messages a peer frames by hand, and their encoded length.
First == NewCall(NewNumberID(1), "m", "[1]")
Second == NewNotification("m", "")

\* The header lines a peer may write: Content-Length with the right
\* length, with 0, a negative number, text, a number beyond 32 bits, some
\* other header, and a line without a colon.
HeaderLines ==
    { Tok("Content-Length", JNum(Len(EncodeMessage(First)))),
      Tok("Content-Length", JNum(0)),
      Tok("Content-Length", JNum(-1)),
      Tok("Content-Length", JStr("x")),
      Tok("Content-Length", JStr("2147483648")),
      Tok("Content-Type", JStr("utf-8")),
      NoColon }

\* The header blocks of up to two lines.
HeaderBlocks ==
    { << >> } \cup { << l >> : l \in HeaderLines }
    \cup { << l, m >> : l \in HeaderLines, m \in HeaderLines }

\* The peer writes a header block of its own making, the first message as
\* body, and a second, well-framed message behind it.
PeerHeaderWrite(block) ==
    /\ wire.framing = "header"
    /\ wire.env = << >>
    /\ wire.wrote = << >>
    /\ wire' = [wire EXCEPT !.env = block \o << BlankLine >>,
                            !.wrote = << First, Second >>,
                            !.bytes = block \o << BlankLine >> \o EncodeMessage(First)
                                      \o HeaderWrite(Second)]
    /\ UNCHANGED notWire

\* The reader stops at the first error.
HeaderReadNext ==
    /\ \A i \in 1..Len(wire.got) : wire.got[i].type # "error"
    /\ WireRead

HeaderNext ==
    \/ ChooseFramer("header")
    \/ \E block \in HeaderBlocks : PeerHeaderWrite(block)
    \/ HeaderReadNext

HeaderSpec == Init /\ [][HeaderNext]_vars

(***************************************************************************)
(* AsyncHandler (handler.go 81-107).  The connection passes the requests   *)
(* to the returned handler one after the other; each gets a goroutine      *)
(* that waits for the channel the previous request's reply closes.         *)
(***************************************************************************)
AsyncRequests == 1..MaxAsync

\* A wait that is over at once.
NoWait(k) == TRUE

\* <-waitForPrevious can proceed: the channel is the closed initial one, or
\* the one the reply of the previous request has closed.
PreviousReplied(k) == IF k = 1 THEN TRUE ELSE async.unlocked[k - 1]

\* The connection calls the handler AsyncHandler returned with the next
\* request: the channels are set up and the goroutine is started.
AsyncCall ==
    /\ async.outer = "idle"
    /\ async.arrived < MaxAsync
    /\ async' = [async EXCEPT !.arrived = @ + 1, !.outer = "called",
                              !.st[async.arrived + 1] = "waiting"]
    /\ UNCHANGED notAsync

\* return nil.
AsyncOuterReturn ==
    /\ async.outer = "called"
    /\ async' = [async EXCEPT !.outer = "idle"]
    /\ UNCHANGED notAsync

\* The goroutine of request k gets past <-waitForPrevious and calls the
\* wrapped handler.
AsyncStart(k) ==
    /\ async.st[k] = "waiting"
    /\ PreviousReplied(k)
    /\ async' = [async EXCEPT !.st[k] = "running", !.starts = Append(@, k)]
    /\ UNCHANGED notAsync

\* The wrapped handler calls reply: close(unlockNext), then innerReply.
AsyncReply(k) ==
    /\ async.st[k] = "running"
    /\ async' = [async EXCEPT !.st[k] = "replied", !.unlocked[k] = TRUE]
    /\ UNCHANGED notAsync

\* The wrapped handler returns, whether it has called reply or not.
AsyncReturn(k) ==
    /\ async.st[k] \in {"running", "replied"}
    /\ async' = [async EXCEPT !.st[k] = "returned"]
    /\ UNCHANGED notAsync

AsyncNext ==
    \/ AsyncCall
    \/ AsyncOuterReturn
    \/ \E k \in AsyncRequests :
          \/ AsyncStart(k)
          \/ AsyncReply(k)
          \/ AsyncReturn(k)

AsyncSpec == Init /\ [][AsyncNext]_vars

(***************************************************************************)
(* The Run/Reply revision of the connection (jsonrpc2.go).  Run reads the  *)
(* requests and gives each a goroutine that waits for the request before   *)
(* it to go parallel, calls the Handler and, in a deferred function,       *)
(* replies for a call the Handler has left unanswered.                     *)
(***************************************************************************)
RunRequests == 1..MaxRun

\* Request.IsNotify: r.ID == nil.
IsNotify(r) == r.kind = "notify"

\* Request.Parallel: idempotent; closes r.nextRequest the first time.
Parallel(r) ==
    IF r.state >= requestParallel
    THEN r
    ELSE [r EXCEPT !.state = requestParallel, !.unlocked = TRUE]

\* A Reply that never looks at the state of the request.
ReplyUnchecked(k, payload, ok) ==
    IF IsNotify(run.req[k])
    THEN [run |-> run, ret |-> "InvalidRequest"]
    ELSE [run |-> [run EXCEPT
                     !.req[k] = [Parallel(@) EXCEPT
                                   !.state = requestReplied,
                                   !.writes = Append(@, [payload |-> payload, ok |-> ok])]],
          ret |-> IF ok THEN "nil" ELSE "InternalError"]

\* Request.Reply on request k: the two refusals, then Parallel, the state
\* and the one Write to the stream, which succeeds (ok) or fails.
Reply(k, payload, ok) ==
    IF run.req[k].state >= requestReplied
    THEN [run |-> run, ret |-> "reply invoked more than once"]
    ELSE IF IsNotify(run.req[k])
    THEN [run |-> run, ret |-> "InvalidRequest"]
    ELSE [run |-> [run EXCEPT
                     !.req[k] = [Parallel(@) EXCEPT
                                   !.state = requestReplied,
                                   !.writes = Append(@, [payload |-> payload, ok |-> ok])]],
          ret |-> IF ok THEN "nil" ELSE "InternalError"]

\* Run reads a message with a method: a call or a notification.  The
\* Request is built and its goroutine started.
RunRead(kind) ==
    /\ run.arrived < MaxRun
    /\ run' = [run EXCEPT !.arrived = @ + 1,
                          !.req[run.arrived + 1].kind = kind,
                          !.req[run.arrived + 1].pc = "waiting"]
    /\ UNCHANGED notRun

\* <-currentReq, req.state = requestSerial, and the Handler is entered.
RunStart(k) ==
    /\ run.req[k].pc = "waiting"
    /\ IF k = 1 THEN TRUE ELSE run.req[k - 1].unlocked
    /\ run' = [run EXCEPT !.req[k].pc = "handling",
                          !.req[k].state = requestSerial]
    /\ UNCHANGED notRun

\* The Handler calls req.Reply with its answer.
HandlerReply(k, ok) ==
    /\ run.req[k].pc = "handling"
    /\ run.req[k].replies < MaxReplies
    /\ LET o == Reply(k, "answer", ok)
       IN run' = [o.run EXCEPT !.req[k].replies = @ + 1,
                                !.req[k].last = o.ret]
    /\ UNCHANGED notRun

\* The Handler calls req.Parallel.
HandlerParallel(k) ==
    /\ run.req[k].pc = "handling"
    /\ run.req[k].state < requestParallel
    /\ run' = [run EXCEPT !.req[k] = Parallel(@)]
    /\ UNCHANGED notRun

\* The Handler returns and the deferred function runs: the InternalError
\* Reply for a call that is not yet replied, then Parallel.
HandlerReturn(k, ok) ==
    /\ run.req[k].pc = "handling"
    /\ LET r == run.req[k]
           o == IF ~IsNotify(r) /\ r.state < requestReplied
                THEN Reply(k, "did not reply", ok)
                ELSE [run |-> run, ret |-> "none"]
       IN run' = [o.run EXCEPT !.req[k] = [Parallel(@) EXCEPT !.pc = "done"]]
    /\ UNCHANGED notRun

RunNext ==
    \/ \E kind \in {"call", "notify"} : RunRead(kind)
    \/ \E k \in RunRequests :
          \/ RunStart(k)
          \/ \E ok \in BOOLEAN : HandlerReply(k, ok)
          \/ HandlerParallel(k)
          \/ \E ok \in BOOLEAN : HandlerReturn(k, ok)

RunSpec == Init /\ [][RunNext]_vars

CodecNext ==
    \/ \E f \in Framers : ChooseFramer(f)
    \/ \E msg \in Messages : WireWrite(msg)
    \/ WireRead

CodecSpec == Init /\ [][CodecNext]_vars

(* ---------------------- concurrent calls of Request ------------------- *)

\* atomic.AddInt64(&c.seq, 1), conn.go 447: the new value of the counter.
AddInt64Lost(s) == s

AddInt64(s) == s + 1

\* Goroutine c enters Request: the counter is incremented atomically and
\* its new value is the identifier of the handle (conn.go 446-449).
RequestID(c) ==
    /\ seq < MaxIDs
    /\ seq' = AddInt64(seq)
    /\ handles' = [handles EXCEPT ![c] = Append(@, AddInt64(seq))]
    /\ UNCHANGED << stream, incomings, incomingsTok, writersTok, pc, cur, res,
                    written, respCalls, connErr >>
    /\ UNCHANGED << outgoings, respChan, resultBox, delivered, qframe, nnotify >>
    /\ UNCHANGED << pipeVars, testVars, awaitErr, closes, srvVars, auxVars >>

IdNext == \E c \in Callers : RequestID(c)

IdSpec == Init /\ [][IdNext]_vars

(* ------------------ the handler and client of the tests --------------- *)

\* The result `true` of the test handler's "wait" and "fork".
True == 1

\* handler.Preempt of jsonrpc2_test.go for every method but "cancel".
\* "unblock" closes the named waiter, "peek" returns the accumulator,
\* anything else is not handled.
TestPreemptOutcome(e) ==
    CASE entries[e].method = "unblock" -> NoOutcome
      [] entries[e].method = "peek"    -> Outcome("nil", accumulator)
      [] entries[e].method = "cancel"  -> NoOutcome
      [] OTHER                         -> Outcome("ErrNotHandled", Nil)

\* "cancel" inside Preempt: h.conn.Cancel(params.ID), which takes the
\* incomings map.
TestPreemptCancel ==
    /\ pc["M"] = "preempt"
    /\ entries[cur["M"]].method = "cancel"
    /\ incomingsTok = "free"
    /\ entries' = CancelEntries(entries[cur["M"]].param)
    /\ pc' = [pc EXCEPT !["M"] = "preempting"]
    /\ UNCHANGED << stream, incomings, incomingsTok, writersTok, cur, res,
                    written, respCalls, connErr >>
    /\ UNCHANGED << nread, peerSeq, q, mok, handled >>
    /\ UNCHANGED << outVars, testVars, extVars >>

\* handler.Preempt returns.
TestPreempt ==
    /\ pc["M"] \in {"preempt", "preempting"}
    /\ pc["M"] = (IF entries[cur["M"]].method = "cancel"
                  THEN "preempting" ELSE "preempt")
    /\ PreemptReturn(TestPreemptOutcome(cur["M"]))
    /\ waiters' = IF entries[cur["M"]].method = "unblock"
                  THEN waiters \cup {entries[cur["M"]].name}
                  ELSE waiters
    /\ UNCHANGED << accumulator, forks, script, calls, extVars >>

\* handler.Handle of jsonrpc2_test.go returns.  "wait" returns once its
\* waiter is closed (true) or its context is done (the context's error);
\* its one-second timer is taken not to fire.
TestHandleOutcomes(e) ==
    CASE entries[e].method \in {"set", "add"} -> { NoOutcome }
      [] entries[e].method = "get"  -> { Outcome("nil", accumulator) }
      [] entries[e].method = "fork" -> { Outcome("ErrAsyncResponse", Nil) }
      [] entries[e].method = "wait" ->
            { Outcome("nil", True) : x \in { w \in waiters : w = entries[e].name } }
            \cup { Outcome("Canceled", Nil) : x \in { c \in {TRUE} : entries[e].cancelled } }
      [] OTHER -> { Outcome("ErrNotHandled", Nil) }

TestHandle ==
    /\ pc["D"] = "handle"
    /\ \E o \in TestHandleOutcomes(cur["D"]) : HandleReturn(o)
    /\ accumulator' =
          CASE entries[cur["D"]].method = "set" -> entries[cur["D"]].param
            [] entries[cur["D"]].method = "add" -> accumulator + entries[cur["D"]].param
            [] OTHER -> accumulator
    /\ forks' = IF entries[cur["D"]].method = "fork"
                THEN forks \cup {cur["D"]}
                ELSE forks
    /\ UNCHANGED << waiters, script, calls, extVars >>

\* The goroutine started by "fork": once the waiter is closed it calls
\* Response(req.ID, true, nil), once the context is done
\* Response(req.ID, nil, ctx.Err()).
TestFork ==
    \E e \in forks :
        /\ \E o \in { Outcome("nil", True) : x \in { w \in waiters : w = entries[e].name } }
                    \cup { Outcome("Canceled", Nil) : x \in { c \in {TRUE} : entries[e].cancelled } } :
              ResponseCall(entries[e].id, o)
        /\ forks' = forks \ {e}
        /\ UNCHANGED << accumulator, waiters, script, calls, extVars >>

\* The steps of the test client.
Step(op, name, method, param) ==
    [op |-> op, name |-> name, method |-> method, param |-> param]

AsyncStep(name, method, param) == Step("async", name, method, param)
NotifyStep(method, param)      == Step("notify", "", method, param)
CollectStep(name)              == Step("collect", name, "", NoParam)
CancelStep(name)               == Step("cancel", name, "cancel", NoParam)

\* callTests "basic cancel", "queue" and "fork" of jsonrpc2_test.go; a
\* call{} is the async Request and the Await that collects it.
CancelScript ==
    << AsyncStep("b", "wait", Param(Nil, "b")),
       CancelStep("b"),
       CollectStep("b") >>

QueueScript ==
    << AsyncStep("a", "wait", Param(Nil, "a")),
       NotifyStep("set", Param(1, "")),
       NotifyStep("add", Param(2, "")),
       NotifyStep("add", Param(3, "")),
       NotifyStep("add", Param(4, "")),
       AsyncStep("peek", "peek", NoParam),
       CollectStep("peek"),
       NotifyStep("unblock", Param(Nil, "a")),
       CollectStep("a"),
       AsyncStep("get", "get", NoParam),
       CollectStep("get") >>

ForkScript ==
    << AsyncStep("a", "fork", Param(Nil, "a")),
       NotifyStep("set", Param(1, "")),
       NotifyStep("add", Param(2, "")),
       NotifyStep("add", Param(3, "")),
       NotifyStep("add", Param(4, "")),
       AsyncStep("get", "get", NoParam),
       CollectStep("get"),
       NotifyStep("unblock", Param(Nil, "a")),
       CollectStep("a") >>

\* The Response frame the connection wrote for the call filed under name.
AnswerTo(name) ==
    { i \in 1..Len(written) :
        written[i].kind = "response" /\ written[i].id = calls[name] }

\* The client's next Request or Notify reaches the reader.
ClientSend ==
    /\ script # << >>
    /\ LET st == Head(script) IN
       /\ st.op \in {"async", "notify", "cancel"}
       /\ ReadRequest(st.op = "async", st.method,
                      IF st.op = "cancel" THEN Param(calls[st.name], "") ELSE st.param)
       /\ calls' = IF st.op = "async"
                   THEN [calls EXCEPT ![st.name] = peerSeq + 1]
                   ELSE calls
    /\ script' = Tail(script)
    /\ UNCHANGED << accumulator, waiters, forks, extVars >>

\* The client's Await returns: the Response to the call was written.
ClientCollect ==
    /\ script # << >>
    /\ Head(script).op = "collect"
    /\ AnswerTo(Head(script).name) # {}
    /\ script' = Tail(script)
    /\ UNCHANGED << stream, incomings, incomingsTok, writersTok, pc, cur, res,
                    written, respCalls, connErr >>
    /\ UNCHANGED << pipeVars, outVars >>
    /\ UNCHANGED << accumulator, waiters, forks, calls, extVars >>

\* The client closes the connection when its sequence has run
\* (`defer h.conn.Close()`), and the reader sees the closed stream.
ClientClose ==
    /\ script = << >>
    /\ CloseStream

TestNext ==
    \/ Engine
    \/ ClientSend
    \/ ClientCollect
    \/ ClientClose
    \/ ReadClosed
    \/ TestPreemptCancel
    \/ TestPreempt
    \/ TestHandle
    \/ TestFork

TestInit ==
    /\ InitConn
    /\ InitExt
    /\ script \in {CancelScript, QueueScript, ForkScript}

\* Every goroutine that can run is scheduled.
TestSpec == TestInit /\ [][TestNext]_vars /\ WF_vars(TestNext)

\* The cancel sequence, with other goroutines calling Cancel with any
\* identifier at any time.
CancelNext ==
    \/ Engine
    \/ ClientSend
    \/ ClientCollect
    \/ ClientClose
    \/ ReadClosed
    \/ TestPreemptCancel
    \/ TestPreempt
    \/ TestHandle
    \/ UserCancel

CancelInit ==
    /\ InitConn
    /\ InitExt
    /\ script = CancelScript

CancelSpec == CancelInit /\ [][CancelNext]_vars /\ WF_vars(CancelNext)

(* ------------------------------ properties ---------------------------- *)

\* The entries read so far, and the calls among them.
Entries == 1..Len(entries)

\* C1: an inbound Response whose id is pending is removed from the table
\* and handed to that call's one-slot channel, so that a call receives at
\* most one Response and a second Response with the same id is dropped; a
\* Response whose id is absent is dropped, and in neither case does the
\* reader block.
C1_OneResponsePerCall ==
    /\ \A id \in OutIDs :
          /\ delivered[id] <= 1
          /\ Len(respChan[id]) + Len(resultBox[id]) = delivered[id]
          /\ id \in outgoings => delivered[id] = 0
          /\ id > seq => id \notin outgoings /\ delivered[id] = 0
    /\ pc["R"] # "blocked"
    /\ pc["Q"] # "blocked"

\* Two Responses were read for call 1: the first was delivered, the second
\* dropped, and the reader is back at its read.
C1_Witness ==
    /\ nread = 2
    /\ seq = 1
    /\ delivered[1] = 1
    /\ pc["R"] = "read"

\* C2: when the reader loop terminates on a read failure, every call still
\* pending leaves the table with a Response (the read error) in its
\* channel, for Await to return.
C2_PendingFailedOnReadError ==
    [][ (pc["R"] = "read" /\ pc'["R"] = "done")
            => \A id \in outgoings :
                   id \notin outgoings' /\ Len(respChan'[id]) = 1 ]_vars

\* C3: the engine writes at most one Response frame for an inbound call.
C3_AtMostOneReply ==
    \A e \in Entries : Cardinality(ResponsesTo(e)) <= 1

\* Two calls were read and each was answered once.
C3_Witness ==
    /\ Len(entries) = 2
    /\ \A e \in Entries : IsCall(e) /\ Cardinality(ResponsesTo(e)) = 1

\* C4: the requests the Preempter did not handle reach Handler.Handle in
\* the order they were read, one at a time: what was handled so far is in
\* reading order, what is queued was read after everything handled and is
\* in reading order, and the one invocation of Handle that may be running
\* is the latest.
C4_HandleInReadOrder ==
    /\ \A i, j \in 1..Len(handled) : i < j => handled[i] < handled[j]
    /\ \A i, j \in 1..Len(q) : i < j => q[i] < q[j]
    /\ \A i \in 1..Len(handled), j \in 1..Len(q) : handled[i] < q[j]
    /\ pc["D"] = "handle" =>
          Len(handled) > 0 /\ cur["D"] = handled[Len(handled)]

\* Two requests went through Handle, the second after the first returned.
C4_Witness ==
    /\ Len(handled) = 2
    /\ pc["D"] = "handle"
    /\ cur["D"] = 2

\* C6: a request is enqueued for, delivered to and handled by the Handler
\* only after Preempt returned ErrNotHandled for it.
C6_HandleOnlyIfNotHandled ==
    /\ \A i \in 1..Len(q) : entries[q[i]].pre = "ErrNotHandled"
    /\ \A i \in 1..Len(handled) : entries[handled[i]].pre = "ErrNotHandled"
    /\ pc["D"] # "recv" /\ pc["D"] # "done" =>
          entries[cur["D"]].pre = "ErrNotHandled"

\* The pipeline has drained, one request was answered or deferred by the
\* Preempter and never reached Handle, and one went through Handle.
C6_Witness ==
    /\ pc["D"] = "done"
    /\ Len(handled) = 1
    /\ \E e \in Entries :
          /\ entries[e].pre \in {"ErrAsyncResponse", "final"}
          /\ \A i \in 1..Len(handled) : handled[i] # e

\* C7: a call for which ErrAsyncResponse was returned has no Response and
\* stays in the inbound table until Response(id) is called; the first
\* Response(id) removes the entry and writes exactly one frame; any later
\* Response(id) writes nothing.
C7_DeferredReply ==
    \A e \in Entries :
        IsCall(e) /\ entries[e].deferred =>
            LET id == entries[e].id
                n  == Cardinality(ResponsesTo(e))
            IN  /\ respCalls[id] = 0 => incomings[id] = e /\ n = 0
                /\ respCalls[id] >= 1 =>
                      /\ incomings[id] = NoEntry
                      /\ n = IF pc["U"] # "idle" /\ cur["U"] = e THEN 0 ELSE 1

\* Response was called twice for a deferred call and one frame is written.
C7_Witness ==
    \E e \in Entries :
        /\ IsCall(e)
        /\ entries[e].deferred
        /\ respCalls[entries[e].id] = 2
        /\ pc["U"] = "idle"
        /\ Cardinality(ResponsesTo(e)) = 1

\* C10: at most one goroutine is inside Writer.Write at any time, and it
\* holds the Writer token.
C10_OneWriter ==
    /\ Cardinality({ t \in Threads : pc[t] = "writing" }) <= 1
    /\ (\E t \in Threads : pc[t] = "writing") => writersTok # "free"

\* Request is inside Write while a reply waits for the Writer, after an
\* earlier frame went out.
C10_Witness ==
    /\ pc["Q"] = "writing"
    /\ \E t \in {"M", "D", "U"} : pc[t] = "wtok"
    /\ Len(written) >= 1

\* The entry of the test sequence that carries method m, once read.
The(m) ==
    IF \E e \in Entries : entries[e].method = m
    THEN CHOOSE e \in Entries : entries[e].method = m
    ELSE NoEntry

\* The frames answering the request with method m.
Answers(m) == IF The(m) = NoEntry THEN {} ELSE ResponsesTo(The(m))

\* The sequence that is running.
Running(first, name) ==
    /\ Len(entries) >= 1
    /\ entries[1].method = first
    /\ entries[1].name = name

\* The notifications set 1, add 2, add 3, add 4 of the queue and fork
\* sequences.
SetAdds == { e \in Entries : entries[e].method \in {"set", "add"} }

InQueue(e) == \E i \in 1..Len(q) : q[i] = e

C5_Safe ==
    Running("wait", "a") =>
        /\ \A i \in Answers("peek") :
              /\ written[i].err = "nil"
              /\ written[i].result = 0
              /\ \A j \in Answers("wait") : i < j
        /\ "a" \notin waiters =>
              /\ Answers("wait") = {}
              /\ accumulator = 0
              /\ \A i \in 1..Len(handled) : handled[i] = The("wait")
        /\ pc["M"] = "preempt" /\ entries[cur["M"]].method = "unblock" =>
              /\ Cardinality(SetAdds) = 4
              /\ \A e \in SetAdds : InQueue(e)
              /\ Answers("peek") # {}
              /\ InQueue(The("wait"))
                    \/ (pc["D"] = "handle" /\ cur["D"] = The("wait"))
        /\ \A i \in Answers("wait") :
              written[i].err = "nil" /\ written[i].result = True
        /\ \A i \in Answers("get") :
              written[i].err = "nil" /\ written[i].result = 10

C5_Done ==
    /\ script = << >>
    /\ Answers("peek") # {}
    /\ Answers("get") # {}

\* C5: while Handle is blocked in "wait a", the requests read after it are
\* still preempted: in the queue sequence peek is answered 0 before wait
\* is answered, unblock is preempted while wait is unanswered and set and
\* the adds are queued, get is answered 10, and the sequence always runs
\* to its end.
C5_PreemptBypassesQueue ==
    /\ []C5_Safe
    /\ (script = QueueScript) ~> C5_Done

\* The queue sequence has run: peek and get were answered.
C5_Witness ==
    /\ Running("wait", "a")
    /\ C5_Done
    /\ \E i \in Answers("get") : written[i].result = 10

C8_Safe ==
    Running("fork", "a") =>
        /\ "a" \notin waiters => Answers("fork") = {}
        /\ \A i, j \in 1..Len(handled) : i < j => handled[i] < handled[j]
        /\ \A i \in Answers("get") :
              /\ written[i].err = "nil"
              /\ written[i].result = 10
              /\ \A j \in Answers("fork") : i < j
              /\ \A e \in SetAdds : \E k \in 1..Len(handled) : handled[k] = e
        /\ \A i \in Answers("fork") :
              written[i].err = "nil" /\ written[i].result = True
        /\ Cardinality(Answers("fork")) <= 1

C8_Done ==
    /\ script = << >>
    /\ Answers("get") # {}
    /\ Answers("fork") # {}

\* C8: a call whose handler returned ErrAsyncResponse does not hold up the
\* pipeline: in the fork sequence set and the adds are handled in order
\* and get is answered 10 while the reply to fork is outstanding, the reply
\* to fork (true) is written only after unblock, and the sequence always
\* runs to its end.
C8_DeferredDoesNotBlock ==
    /\ []C8_Safe
    /\ (script = ForkScript) ~> C8_Done

\* The fork sequence has run: get was answered, then fork.
C8_Witness ==
    /\ Running("fork", "a")
    /\ C8_Done
    /\ \E i \in Answers("fork") : written[i].result = True

\* Entry e is inside Connection.response (reply or Response).
Replying(e) ==
    \E t \in {"M", "D", "U"} : cur[t] = e /\ pc[t] \in {"reply", "wtok", "writing"}

\* The handling context of entry e goes from live to cancelled only while
\* the entry is in the inbound table, or in Connection.response when the
\* request has been answered.
C9_CancelStep ==
    \A e \in Entries :
        (~entries[e].cancelled /\ entries'[e].cancelled) =>
            \/ IsCall(e) /\ incomings[entries[e].id] = e
            \/ Replying(e)

C9_Safe ==
    /\ \A e \in Entries :
          pc["R"] \in {"reg", "regw"} /\ cur["R"] = e => ~entries[e].cancelled
    /\ pc["M"] = "preempting" =>
          LET id == entries[cur["M"]].param IN
          incomings[id] # NoEntry => entries[incomings[id]].cancelled
    /\ \A i \in Answers("wait") :
          /\ written[i].err = "Canceled"
          /\ entries[The("wait")].cancelled

C9_Done ==
    /\ script = << >>
    /\ Answers("wait") # {}

\* C9: Cancel(id) cancels the handling context of the call with that id
\* when it is in the inbound table and does nothing otherwise; the Response
\* to a cancelled call is still written, so that in the cancel sequence the
\* caller's Await always completes, with an error.
C9_CancelThenReply ==
    /\ []C9_Safe
    /\ [][C9_CancelStep]_vars
    /\ (script = CancelScript) ~> C9_Done

\* The cancel sequence has run: the handler's cancel request cancelled
\* wait b, whose Response carries the context's error.
C9_Witness ==
    /\ C9_Done
    /\ The("cancel") # NoEntry
    /\ entries[The("cancel")].pre = "final"
    /\ \E i \in Answers("wait") : written[i].err = "Canceled"

\* C11: once Await has returned the caller's context error for a call, the
\* pending table holds the call's id no more (so that a Response arriving
\* later is dropped and the call has seen one outcome only).
C11_RemovedWhenAwaitCancelled ==
    \A id \in awaitErr : id \notin outgoings

\* The identifiers handed out so far, as (caller, position) pairs.
Handed == { h \in Callers \X (1..MaxIDs) : h[2] <= Len(handles[h[1]]) }

\* C12: the identifiers of the handles returned to any number of
\* concurrent callers of Request are pairwise distinct, each the counter's
\* value after one increment, and none is handed out twice.
C12_DistinctIDs ==
    /\ \A g, h \in Handed : g # h => handles[g[1]][g[2]] # handles[h[1]][h[2]]
    /\ { handles[h[1]][h[2]] : h \in Handed } = 1..seq
    /\ seq = Cardinality(Handed)

\* Every caller holds a handle, and one of them two.
C12_Witness ==
    /\ \A c \in Callers : Len(handles[c]) >= 1
    /\ seq = MaxIDs

(* --------------------------- Close and Wait --------------------------- *)

\* The three goroutines of the connection have returned.
AllFinished == pc["R"] = "done" /\ pc["M"] = "done" /\ pc["D"] = "done"

\* A Close that got past closer.Close() has returned.
CloseWaited == \E i \in 1..Len(closes) : closes[i] # "closefailed"

\* Every request that was read has been through Preempt, and every one
\* queued for the Handler has had Handle return.
AllHandled ==
    /\ Len(q) = 0
    /\ \A e \in Entries :
          /\ entries[e].pre # "none"
          /\ entries[e].pre = "ErrNotHandled" =>
                \E k \in 1..Len(handled) : handled[k] = e

C13_Safe ==
    /\ (CloseWaited \/ pc["W"] = "returned") => AllFinished /\ AllHandled
    /\ CloseWaited => stream = "closed"
    /\ pc["D"] = "handle" => ~entries[cur["D"]].cancelled
    /\ \A e \in Entries : InQueue(e) => ~entries[e].cancelled

CloseReturns == Len(closes') = Len(closes) + 1

\* C19: Connection.Close returns nil whenever the closer and the reader
\* reported nothing but closing errors; in particular a Close on a
\* connection whose stream is closed already, by an earlier Close or by
\* the peer, returns nil however often it is repeated.
C19_CloseIdempotent ==
    /\ [](\A i \in 1..Len(closes) :
             closes[i] # "nil" =>
                \/ closes[i] = "closefailed"
                \/ closes[i] = "framing" /\ connErr = "framing")
    /\ [][CloseReturns /\ stream = "closed" /\ connErr # "framing" =>
             closes'[Len(closes')] = "nil"]_vars

\* Close returned nil, and a second Close on the connection that had shut
\* down, its stored error being a closing error, returned nil as well.
C19_Witness ==
    /\ Len(closes) = 2
    /\ closes[1] = "nil"
    /\ closes[2] = "nil"
    /\ connErr = "closing"

(* ---------------------------- notifications --------------------------- *)

\* The inbound notifications.
Notifications == { e \in Entries : entries[e].id = Nil }

\* C14: no frame is written in reply to an inbound notification, whatever
\* the Preempter or the Handler returned for it: every Response written
\* carries an identifier and answers a request that had one.
C14_NoReplyToNotification ==
    \A i \in 1..Len(written) :
        /\ written[i].id # Nil
        /\ written[i].entry \notin Notifications

\* One notification went through the Handler and Connection.response, and
\* the Handler has returned a result for a second one.
C14_Witness ==
    /\ \E e \in Notifications :
          /\ entries[e].cancelled
          /\ \E k \in 1..Len(handled) : handled[k] = e
    /\ pc["D"] = "reply"
    /\ cur["D"] \in Notifications
    /\ res["D"].result # Nil

(* ------------------------- the default Handler ------------------------ *)

\* The Response frames that answer calls the Preempter left to the Handler.
ToHandler ==
    { i \in 1..Len(written) : entries[written[i].entry].pre = "ErrNotHandled" }

\* Entry e was handed to Handler.Handle.
WasHandled(e) == \E k \in 1..Len(handled) : handled[k] = e

ActiveConns == { i \in Conns : cstate[i] \in {"accepted", "failed", "running", "broken"} }

\* The idle timer closes the wrapped listener in this step.
TimerCloses == ~lis.wasTimeout /\ lis'.wasTimeout

\* C16: the idle timer is armed only while no connection returned by
\* Accept is still to report its closure, and it goes off, closing the
\* wrapped listener, only then.
C16_TimerOnlyWhenIdle ==
    /\ [](lis.run = "timer" => ActiveConns = {})
    /\ [][TimerCloses => ActiveConns = {} /\ ActiveConns' = {}]_vars

\* The timer closed the listener after a connection had been served and
\* had reported its closure.
C16_Witness ==
    /\ lis.wasTimeout
    /\ ~lis.open
    /\ panicked = "none"
    /\ \E i \in Conns : Reported(i)

\* Accept on the idleListener fails in this step.
AcceptFailing == srv.accepted = "none" /\ srv'.accepted # "none"

C18_ListenerCloseIdempotent ==
    /\ panicked # "Close"
    /\ lcloses > 0 => ~lis.open

(* ----------------------------- Server.Wait ---------------------------- *)

\* The first of the errors in log that is no closing error, nil if none.
FirstError(log) ==
    LET real == { k \in 1..Len(log) : log[k] # "closing" } IN
    IF real = {} THEN "nil"
    ELSE log[CHOOSE k \in real : \A j \in real : k <= j]

\* The connections that were accepted and bound and still run.
StillRunning == { i \in Conns : cstate[i] \in {"running", "reported"} }

\* C20: Server.Wait returns only after the accept loop has exited, on an
\* error of Accept, and every connection accepted and bound has
\* terminated; the error stored and returned is the first of the errors
\* of Accept and Bind that is no closing error, nil when all were closing
\* errors.
C20_WaitAfterAll ==
    /\ srv.err = FirstError(srv.log)
    /\ srv.waited # "blocked" =>
          /\ srv.pc = "done"
          /\ srv.accepted # "none"
          /\ StillRunning = {}
          /\ srv.waited = FirstError(srv.log)

\* Bind failed for one connection, another was served to its end, Accept
\* then failed, and Wait returned the error of Bind.
C20_Witness ==
    /\ srv.waited = "bindfailed"
    /\ Len(srv.log) = 2
    /\ \E i \in Conns : Done(i)

(* -------------------------------- NetPipe ----------------------------- *)

\* The Accept calls that returned the far end of pipe p.
AcceptedBy(p) == { a \in Acceptors : piper.acc[a] = [st |-> "stream", p |-> p] }

\* C21: every Dial that returned handed the far end of its fresh pipe to
\* exactly one Accept, every stream Accept returns is the far end of one
\* Dial, and once the listener is closed Accept returns no stream.
C21_DialAcceptPairing ==
    /\ [](/\ \A p \in piper.dialed : Cardinality(AcceptedBy(p)) = 1
          /\ \A a \in Acceptors :
                piper.acc[a].st = "stream" => piper.acc[a].p \in piper.dialed)
    /\ [][\A a \in Acceptors :
             piper.acc[a].st = "select" /\ piper'.acc[a].st = "stream" =>
                ~piper.done]_vars

(* -------------------------------- IsReady ----------------------------- *)

\* Connection.Request has returned the handle of call id.
Returned(id) == id <= seq /\ (pc["Q"] = "idle" \/ id < seq)

\* The outcomes held for call id, in its response channel or result box.
Held(id) == { respChan[id][i] : i \in 1..Len(respChan[id]) } \cup
            { resultBox[id][i] : i \in 1..Len(resultBox[id]) }

\* The write of call id failed.
SendFailed(id) == \E o \in Held(id) : o.err = "senderr"

\* C22: as soon as Request has returned, IsReady is true for a call whose
\* write failed, and the result it then holds is the send error; IsReady
\* is true as well once Await has put a result in the box.
C22_ReadyAfterFailedSend ==
    \A id \in OutIDs :
        Returned(id) /\ SendFailed(id) =>
            /\ IsReady(id)
            /\ \E i \in 1..Len(resultBox[id]) : resultBox[id][i].err = "senderr"

\* What a message looks like once it has been on the wire: a null blob has
\* become the empty blob, the error is a wire error, and a result that came
\* with an error is gone.
Normal(msg) ==
    [msg EXCEPT !.params = IF @ = "null" THEN "" ELSE @,
                !.result = IF msg.err.kind # "nil" \/ @ = "null" THEN "" ELSE @,
                !.err = toError(@)]

RECURSIVE Frames(_, _, _)
Frames(f, msgs, from) ==
    IF from > Len(msgs) THEN << >>
    ELSE WriteFrame(f, msgs[from]) \o Frames(f, msgs, from + 1)

MethodSet(data) == Member(data, "method").t = "str" /\ Member(data, "method").s # ""
IdSet(data) == Member(data, "id").t \in {"num", "str"}
VersionOk(data) == Member(data, "jsonrpc") = JStr("2.0")
Decoded == wire.env # << >> /\ Len(wire.got) = 1

\* C24: DecodeMessage classifies an envelope by its method and id: both set
\* gives a call with that id and method, a method without id a
\* notification, an id without method a response with that id, and neither
\* is rejected with ErrInvalidRequest.
C24_Classification ==
    Decoded /\ VersionOk(wire.env) =>
        LET msg == wire.got[1]
            data == wire.env
        IN  /\ MethodSet(data) /\ IdSet(data) =>
                  /\ msg.type = "call"
                  /\ msg.method = Member(data, "method").s
                  /\ IDMarshal(msg.id) = Member(data, "id")
            /\ MethodSet(data) /\ ~IdSet(data) =>
                  msg.type = "notification" /\ msg.method = Member(data, "method").s
            /\ ~MethodSet(data) /\ IdSet(data) =>
                  msg.type = "response" /\ IDMarshal(msg.id) = Member(data, "id")
            /\ ~MethodSet(data) /\ ~IdSet(data) =>
                  msg.type = "error" /\ msg.err.msg = "JSON-RPC invalid request"

C24_Witness ==
    /\ Decoded
    /\ wire.got[1].type = "notification"
    /\ Member(wire.env, "id") = JNull
    /\ Member(wire.env, "result") # JAbsent

\* The last JSON object on the stream.
LastFrame ==
    LET open == CHOOSE i \in 1..Len(wire.bytes) :
                    wire.bytes[i].k = "{" /\ \A j \in (i + 1)..Len(wire.bytes) : wire.bytes[j].k # "{"
    IN  SubSeq(wire.bytes, open, Len(wire.bytes))

ResponseWritten ==
    /\ wire.wrote # << >>
    /\ Len(wire.got) < Len(wire.wrote)
    /\ wire.wrote[Len(wire.wrote)].type = "response"

\* C25: the encoding of a Response never has both members: with a non-nil
\* error it has the error member and no result member, with a nil error it
\* has the result member and no error member.
C25_ResultXorError ==
    ResponseWritten =>
        LET r == wire.wrote[Len(wire.wrote)] IN
        /\ r.err.kind # "nil" =>
              /\ Member(LastFrame, "result") = JAbsent
              /\ Member(LastFrame, "error") = JErr(toError(r.err).code, toError(r.err).msg)
        /\ r.err.kind = "nil" =>
              /\ Member(LastFrame, "result") = BlobMarshal(r.result)
              /\ Member(LastFrame, "error") = JAbsent

C25_Witness ==
    /\ ResponseWritten
    /\ wire.wrote[Len(wire.wrote)].err.kind = "plain"
    /\ wire.wrote[Len(wire.wrote)].result = "[1]"
    /\ Member(LastFrame, "id") = JStr("a")

CallWritten ==
    /\ wire.wrote # << >>
    /\ Len(wire.got) < Len(wire.wrote)
    /\ wire.wrote[Len(wire.wrote)].type = "call"

\* C26: an identifier is written as its string when it has one and as its
\* number otherwise, the default identifier therefore as the number 0, and
\* every identifier, the default one included, is read back unchanged.
C26_IDRoundTrip ==
    /\ CallWritten =>
          LET id == wire.wrote[Len(wire.wrote)].id IN
          /\ Member(LastFrame, "id") = IF id.name # "" THEN JStr(id.name) ELSE JNum(id.number)
          /\ id = DefaultID => Member(LastFrame, "id") = JNum(0)
          /\ IDUnmarshal(Member(LastFrame, "id")) = id
    /\ \A i \in 1..Len(wire.got) :
          i <= Len(wire.wrote) /\ wire.wrote[i].type \in {"call", "response"} =>
              wire.got[i].type = wire.wrote[i].type /\ wire.got[i].id = wire.wrote[i].id

\* C26 as stated: the default identifier is written as JSON null.
C26_DefaultIDIsNull ==
    CallWritten /\ wire.wrote[Len(wire.wrote)].id = DefaultID =>
        Member(LastFrame, "id") = JNull

C26_Witness ==
    /\ Len(wire.got) >= 2
    /\ wire.wrote[1].type = "call" /\ wire.wrote[1].id = DefaultID
    /\ wire.got[1].id = DefaultID
    /\ wire.got[2].id = NewStringID("a")

\* The goroutines that have the inbound table in their hands: the one that
\* took the map from its channel and has not given it back, and the reader
\* between giving the map back and storing the new entry in it.
TableUsers ==
    (IF incomingsTok = "free" THEN {} ELSE {incomingsTok})
    \cup (IF pc["R"] = "regw" THEN {"R"} ELSE {})

\* C27: at most one goroutine at a time has the inbound table in its
\* hands, the reader inserting a newly read call included.
C27_ExclusiveAccess == Cardinality(TableUsers) <= 1

\* Side s cannot move: its reader waits for the map, which its deliverer
\* holds while its write of a reply waits for the other side's reader.
Stuck(s) ==
    /\ pair[s].rd = "reg"
    /\ pair[s].tab = "D"
    /\ pair[s].dl = "writing"
    /\ pair[s].out = "response"

\* C28: two Connections joined by a synchronous pipe that call each other
\* never reach the state where on both sides the reader waits for the
\* inbound table while the deliverer holds it, blocked writing a reply.
C28_NoPipeDeadlock == ~(\A s \in Sides : Stuck(s))

\* C29: an error of the Reader is fatal: the step that stores it stops the
\* reader loop, the stored error never changes afterwards, no further
\* message is read or turned into an entry, and Wait returns that error.
C29_ReadErrorFatal ==
    /\ [][connErr = "nil" /\ connErr' # "nil" => pc'["R"] = "done"]_vars
    /\ [][connErr # "nil" =>
            /\ connErr' = connErr
            /\ pc'["R"] = "done"
            /\ nread' = nread
            /\ Len(entries') = Len(entries)]_vars
    /\ [](pc["W"] = "returned" => res["W"].err = connErr)

C29_Witness ==
    /\ connErr = "framing"
    /\ stream = "open"
    /\ Len(entries) >= 1
    /\ pc["W"] = "returned"
    /\ res["W"].err = "framing"

\* Stage t (the queue manager or the deliverer) takes entry e in this step.
Takes(t, e) == cur'[t] = e /\ cur[t] # e

\* Entry e was finalised without having been passed to Handle, and without
\* Preempt having returned for it an error of its own.
Skipped(e) ==
    /\ entries[e].pre \in {"none", "ErrNotHandled"}
    /\ \A i \in 1..Len(handled) : handled[i] # e

\* C30: an entry whose handling context is already cancelled when the
\* queue manager or the deliverer takes it is not passed to Preempt or
\* Handle; the stage goes straight to the reply with the context's
\* cancellation error, and what is written for such a call is an error
\* Response carrying that error.
C30_CancelledNotDispatched ==
    /\ [][\A e \in 1..Len(entries) :
            /\ Takes("M", e) /\ entries[e].cancelled =>
                  /\ pc'["M"] = "reply"
                  /\ res'["M"] = Outcome("Canceled", Nil)
            /\ Takes("D", e) /\ entries[e].cancelled =>
                  /\ pc'["D"] = "reply"
                  /\ res'["D"] = Outcome("Canceled", Nil)
                  /\ handled' = handled]_vars
    /\ [](\A i \in 1..Len(written) :
            written[i].kind = "response" /\ Skipped(written[i].entry) =>
                written[i].err = "Canceled" /\ written[i].result = Nil)

C30_Witness ==
    /\ \E i \in 1..Len(written) :
          /\ written[i].kind = "response"
          /\ entries[written[i].entry].pre = "none"
          /\ written[i].err = "Canceled"
    /\ \E i \in 1..Len(written) :
          /\ written[i].kind = "response"
          /\ entries[written[i].entry].pre = "ErrNotHandled"
          /\ Skipped(written[i].entry)

\* Goroutine t finishes in this step the write of its reply.
Wrote(t) == pc[t] = "writing" /\ pc'[t] # "writing"

\* C31: when the Preempter or the Handler returned (nil, nil) for a call,
\* what the engine writes for it is one error Response with InternalError
\* and no result.
C31_NilNilIsInternalError ==
    [][\A t \in {"M", "D"} :
          Wrote(t) /\ res[t] = Outcome("nil", Nil) =>
              /\ Len(written') = Len(written) + 1
              /\ written'[Len(written')] =
                     Frame("response", entries[cur[t]].id, "ErrInternal", Nil, cur[t])]_vars

C31_Witness ==
    /\ \E i \in 1..Len(written) :
          /\ written[i].err = "ErrInternal"
          /\ entries[written[i].entry].pre = "final"
    /\ \E i \in 1..Len(written) :
          /\ written[i].err = "ErrInternal"
          /\ \E j \in 1..Len(handled) : handled[j] = written[i].entry

\* The write of the call in qframe fails in this step.
CallWriteFails ==
    /\ pc["Q"] = "writing"
    /\ pc'["Q"] # "writing"
    /\ qframe.kind = "call"
    /\ stream = "closed"

\* C32: a call is in the outgoings map from before its frame is written
\* until a Response is delivered for it, so no Response finds it missing;
\* when the write fails, the entry is removed by delivering a synthesised
\* error Response to the call's channel.
C32_RegisteredBeforeWrite ==
    /\ [](\A id \in OutIDs : id <= seq /\ delivered[id] = 0 => id \in outgoings)
    /\ [][CallWriteFails =>
            /\ qframe.id \notin outgoings'
            /\ qframe.id \in outgoings =>
                  /\ delivered'[qframe.id] = 1
                  /\ respChan'[qframe.id] = << Outcome("senderr", Nil) >>]_vars

C32_Witness ==
    \E id \in OutIDs :
        /\ id <= seq
        /\ id \notin outgoings
        /\ delivered[id] = 1
        /\ respChan[id] = << Outcome("senderr", Nil) >>
        /\ \E i \in 1..Len(written) : written[i].kind = "call" /\ written[i].id = id

\* The outcomes Await has returned that came from the Response.
Outcomes ==
    { handle.returned[i].out : i \in { j \in 1..Len(handle.returned) :
                                          handle.returned[j].out # "ctx" } }

Refilling == { a \in Awaiters : handle.aw[a].pc = "refill" }

\* C33: once an Await has returned an outcome of the Response, every Await
\* that does not return on its done context returns the same outcome; the
\* result is then either in the box or in the hands of exactly one Await
\* about to put it back, so an Await waits at most for that refill; the
\* box never holds two values and a refill finds the slot free.
C33_AwaitRepeatable ==
    /\ Cardinality(Outcomes) <= 1
    /\ Len(handle.result) <= 1
    /\ Refilling # {} => Len(handle.result) = 0
    /\ Outcomes # {} =>
          /\ Len(handle.result) + Cardinality(Refilling) = 1
          /\ \A i \in 1..Len(handle.result) : handle.result[i] \in Outcomes
          /\ \A a \in Refilling : handle.aw[a].r \in Outcomes

\* C33 as stated: after an Await has returned an outcome of the Response,
\* every later Await returns that outcome.
C33_EveryAwaitSameOutcome ==
    \A i, j \in 1..Len(handle.returned) :
        i < j /\ handle.returned[i].out # "ctx" =>
            handle.returned[j].out = handle.returned[i].out

C33_Witness ==
    /\ Len(handle.returned) >= 3
    /\ \A i \in 1..Len(handle.returned) : handle.returned[i].out = "rerr"
    /\ \E i, j \in 1..Len(handle.returned) : handle.returned[i].a # handle.returned[j].a
    /\ Len(handle.result) = 1

\* The lines of the header block the peer wrote.
Lines == SubSeq(wire.env, 1, Len(wire.env) - 1)

\* A Content-Length line whose value is an integer from 1 to 2^31 - 1.
GoodLength(l) == l.k = "Content-Length" /\ l.j.t = "num" /\ l.j.n >= 1

BadLine(l) == l = NoColon \/ (l.k = "Content-Length" /\ ~GoodLength(l))

HeaderRead1 == wire.framing = "header" /\ Len(wire.env) > 0 /\ Len(wire.got) >= 1

\* C34: the header Reader returns an error and no message when the block
\* has a line without colon, a Content-Length that is no integer in
\* 1..2^31-1, or no Content-Length at all; other headers are ignored; on
\* success the body is exactly the N bytes behind the empty line and the
\* next Read returns the next frame.
C34_HeaderReader ==
    HeaderRead1 =>
        IF \/ \E i \in 1..Len(Lines) : BadLine(Lines[i])
           \/ ~\E i \in 1..Len(Lines) : GoodLength(Lines[i])
        THEN wire.got[1].type = "error" /\ Len(wire.got) = 1
        ELSE /\ wire.got[1] = First
             /\ Len(wire.got) = 1 => wire.bytes = HeaderWrite(Second)
             /\ Len(wire.got) = 2 => wire.got[2] = Second /\ wire.bytes = << >>

C34_Witness ==
    /\ HeaderRead1
    /\ Len(wire.got) = 2
    /\ wire.got[2] = Second
    /\ \E i \in 1..Len(Lines) : Lines[i].k = "Content-Type"

\* C35: the timer case of idleListener.run is taken at most once.
C35_TimerFiresOnce == lis.fired <= 1

\* The Accept in progress has a connection to hand to run, and run has
\* returned: nothing will ever receive from newConns.
Stranded == srv.pc = "send" /\ lis.run = "done"

\* C36: no Accept on the idle-timeout wrapper is left blocked for ever
\* handing its new connection to the run loop.
C36_AcceptNotStranded == ~Stranded

\* C37: an error that is no *Error is sent with code 0 and its text as
\* the message; an error that wraps an *Error is sent with the code of the
\* wrapped error and the message of the outer error.
C37_ErrorOnTheWire ==
    ResponseWritten =>
        LET err == wire.wrote[Len(wire.wrote)].err IN
        /\ err.kind = "plain" => Member(LastFrame, "error") = JErr(0, err.msg)
        /\ err.kind = "wrapping" => Member(LastFrame, "error") = JErr(err.code, err.msg)

Started(k) == async.st[k] \in {"running", "replied", "returned"}

\* C38: with AsyncHandler the wrapped handler of a request has started
\* only if the reply of the request before it has been called, so the
\* wrapped handlers start in the order of arrival; the outer handler never
\* waits for any of them.
C38_AsyncInOrder ==
    /\ \A k \in AsyncRequests : Started(k) /\ k > 1 => async.unlocked[k - 1]
    /\ \A i \in 1..Len(async.starts) : async.starts[i] = i
    /\ \A k \in AsyncRequests : Started(k) <=> k <= Len(async.starts)
    /\ async.outer = "called" => ENABLED AsyncOuterReturn

C38_Witness ==
    /\ async.arrived >= 3
    /\ async.outer = "idle"
    /\ async.st[1] = "returned"
    /\ async.unlocked[1]
    /\ async.st[2] = "running"
    /\ async.st[3] = "waiting"

\* The replies Reply has handed to the stream for request k, in order.
RepliesTo(k) == run.req[k].writes

\* C39: in the Run/Reply revision at most one reply is written for a
\* request and none for a notification; a Reply after the first returns
\* "reply invoked more than once" and a Reply on a notification returns an
\* InvalidRequest error, neither writing; and when the handling of a call is
\* over exactly one reply has been written, the InternalError reply of the
\* connection if the handler made none.
C39_RepliedOnce ==
    \A k \in RunRequests :
       LET r == run.req[k]
       IN /\ Len(RepliesTo(k)) <= 1
          /\ IsNotify(r) => RepliesTo(k) = << >>
          /\ IsNotify(r) /\ r.replies >= 1 => r.last = "InvalidRequest"
          /\ r.kind = "call" /\ r.replies >= 2 => r.last = "reply invoked more than once"
          /\ r.kind = "call" /\ r.pc = "done" => Len(RepliesTo(k)) = 1
          /\ r.kind = "call" /\ r.pc = "done" /\ r.replies = 0
                => RepliesTo(k)[1].payload = "did not reply"

C39_Witness ==
    /\ run.req[1].kind = "call" /\ run.req[1].replies = 2 /\ run.req[1].pc = "done"
    /\ run.req[2].kind = "notify" /\ run.req[2].replies = 1 /\ run.req[2].pc = "done"
    /\ run.req[3].kind = "call" /\ run.req[3].replies = 0 /\ run.req[3].pc = "done"
    /\ run.req[1].last = "reply invoked more than once"
    /\ run.req[2].last = "InvalidRequest"
    /\ RepliesTo(3)[1].payload = "did not reply"

\* The goroutines that write: the queue manager and the deliverer in
\* reply, the callers of Response, and of Request and Notify.
Holders == {"M", "D", "U", "Q"}

\* The goroutines of the connection newConnection has yet to start.
Unstarted == { t \in {"R", "M", "D"} : pc[t] = "unstarted" }

\* C40: the Writer is out of its channel only while one goroutine is inside
\* Connection.write, and it is back when that write returns, failed or not;
\* until newConnection has started the reader, the queue manager and the
\* deliverer it is with newConnection, so a write attempted earlier waits:
\* nothing is written, and no call has failed in its write, before the
\* three run.
C40_WriterToken ==
    /\ [](/\ writersTok \in Holders => pc[writersTok] = "writing"
          /\ \A t \in Holders : pc[t] = "writing" => writersTok = t
          /\ Unstarted # {} => /\ writersTok = "N"
                                /\ written = << >>
                                /\ \A id \in OutIDs : ~SendFailed(id))
    /\ [][\A t \in Holders : pc[t] = "writing" /\ pc'[t] # "writing" => writersTok' = "free"]_vars
    /\ [][writersTok = "N" /\ writersTok' # "N" => Unstarted = {} /\ writersTok' = "free"]_vars

\* Notify has the Writer after the write of the call failed on the closed
\* stream.
C40_Witness ==
    /\ \E id \in OutIDs : SendFailed(id)
    /\ stream = "closed"
    /\ pc["Q"] = "writing"
    /\ qframe.kind = "notify"
    /\ writersTok = "Q"

====
